---- MODULE Spec2Model ----
(***************************************************************************)
(* Model of the retrieval core of the workplace automation system:         *)
(*   - EmbeddingsService (app/core/embeddings_service.py): the embedding   *)
(*     cache, embed_text and embed_texts, called from coroutines that run  *)
(*     on one asyncio event loop;                                          *)
(*   - OpenAIClientWrapper (app/core/openai_client.py): the tenacity retry  *)
(*     loop around the chat and embedding calls, and the usage statistics;  *)
(*   - DocumentTextSplitter / AdaptiveTextSplitter                          *)
(*     (app/core/text_splitter.py): recursive separator splitting and the  *)
(*     classification of a text as code, table or general;                 *)
(*   - DocumentService (app/services/document_service.py): upload and      *)
(*     delete of a document, with DocumentLoader                           *)
(*     (app/core/document_loader.py) and PineconeService                   *)
(*     (app/core/pinecone_service.py);                                     *)
(*   - SearchService, QAChain and the bot sessions: retrieval, answers     *)
(*     and conversation history;                                           *)
(*   - SummarizationChain and SummarizationService: single-pass and        *)
(*     map-reduce summaries, batches and jobs.                             *)
(* Each component has its own specification (SpecEmbed, SpecCache,         *)
(* SpecRetry, SpecSplit, SpecAdaptive, SpecIngest, SpecUpload, SpecLoader, *)
(* SpecStore, SpecSearch, SpecChat, SpecSum, SpecJobs); the variables of   *)
(* the other components stay at their initial value.                       *)
(***************************************************************************)
EXTENDS Integers, Sequences, FiniteSets, TLC

VARIABLES
    use_cache,      \* EmbeddingsService.use_cache
    batch_size,     \* EmbeddingsService.batch_size
    cache,          \* EmbeddingsService.cache: cache key -> vector
    req,            \* per caller: the embed_text / embed_texts call it is in
    running,        \* the coroutine that holds the event loop (NoCaller: none)
    queryCalls,     \* history: embed_query calls issued, per text
    queryOk,        \* history: embed_query calls that returned, per text
    docsOk,         \* history: texts for which embed_documents returned a vector
    started,        \* history: number of calls accepted so far
    failures,       \* history: number of backend calls that raised so far
    total_tokens_used,  \* OpenAIClientWrapper.total_tokens_used
    total_cost,     \* OpenAIClientWrapper.total_cost, in 1e-7 dollars
    call,           \* the OpenAIClientWrapper call in progress
    client_calls,   \* history: number of OpenAIClientWrapper calls so far
    doc_text,       \* the text handed to the splitter
    chunk_size,     \* chunk_size given to create_text_splitter
    chunk_overlap,  \* chunk_overlap given to create_text_splitter
    adaptive,       \* create_text_splitter(adaptive=...)
    chunks,         \* the chunks returned
    content_type,   \* the class the adaptive splitter detected
    split_pc,       \* "input": not split yet; "split": chunks is the result
    documents_db,   \* DocumentService.documents_db: document id -> metadata
    index,          \* the Pinecone index: vector id -> values and metadata
    upload,         \* the upload_and_process_document call in progress
    search,         \* the SearchService call in progress
    chat_history,   \* QAChain.chat_history
    qa,             \* the answer_with_conversation_history call in progress
    sessions,       \* TeamsBot.user_sessions: user id -> session
    sum_call,       \* the SummarizationChain call in progress
    jobs,           \* SummarizationService.jobs: job id -> job
    ups,            \* the PineconeService.upsert call in progress
    removal,        \* the delete_document call in progress
    loader,         \* the DocumentLoader call in progress, and the files on disk
    adaptive_call   \* the AdaptiveTextSplitter.split_documents call in progress

evars == <<use_cache, batch_size, cache, req, running, queryCalls, queryOk,
           docsOk, started, failures>>

rvars == <<total_tokens_used, total_cost, call, client_calls>>

svars == <<doc_text, chunk_size, chunk_overlap, adaptive, chunks, content_type,
           split_pc>>

dvars == <<documents_db, index, upload>>

qvars == <<search, chat_history, qa, sessions>>

mvars == <<sum_call>>

xvars == <<jobs, ups, removal, loader, adaptive_call>>

vars == <<evars, rvars, svars, dvars, qvars, mvars, xvars>>

---------------------------------------------------------------------------
(* Bounds of the model.                                                    *)

MaxLen == 2          \* longest list handed to embed_texts
MaxCalls == 3        \* calls accepted in one behaviour
MaxFailures == 1     \* embedding backend calls that raise in one behaviour
MaxClientCalls == 2  \* OpenAIClientWrapper calls in one behaviour
MaxTextLen == 4      \* longest free part of a text handed to the splitter
MaxChunkSize == 3    \* largest chunk_size

Texts == {1, 2}
Callers == {"c1", "c2"}
BatchSizes == {1, 2}
NoCaller == "none"

---------------------------------------------------------------------------
(* Helpers on sequences.                                                   *)

Min(a, b) == IF a < b THEN a ELSE b

Max(a, b) == IF a > b THEN a ELSE b

SeqsUpTo(S, n) == UNION {[1..k -> S] : k \in 0..n}

---------------------------------------------------------------------------
(* EmbeddingsService                                                       *)

\* The placeholder embed_texts puts at the index of a cache miss.
None == <<>>

\* _get_cache_key: the md5 hex digest of the text.  A digest is a function
\* of the text alone and is taken to be collision-free on the texts of the
\* model; it is not the text itself.
get_cache_key_colliding(text) == 11 % 101

get_cache_key(text) == (37 * text + 11) % 101

\* The embedding backend (OpenAIEmbeddings.embed_query / embed_documents):
\* one vector per text, the same vector for the same text, in input order.
embed_query(text) == <<text, text * text>>

backend_embed_documents(batch) == [j \in 1..Len(batch) |-> embed_query(batch[j])]

IdleReq == [pc |-> "idle", op |-> "none", texts |-> <<>>, embeddings |-> <<>>,
            texts_to_embed |-> <<>>, text_indices |-> <<>>, i |-> 0,
            hit |-> FALSE, ncalls |-> 0]

\* Request handlers are coroutines (async def) on one event loop: a coroutine
\* runs until it awaits or returns, and no other coroutine runs meanwhile.
Runnable(c) == running \in {NoCaller, c}

\* embed_text calls embed_query synchronously: between the cache check and
\* the insert the coroutine does not give up the event loop.
HolderAfterMissAwaiting(c) == NoCaller

HolderAfterMiss(c) == c

\* The EmbeddingsService operations leave the other components alone.
EmbedFrame == UNCHANGED <<rvars, svars, dvars, qvars, mvars, xvars>>

\* A caller (a request handler) asks for an embedding: the coroutine is
\* scheduled, it has not run yet.
RequestText(c, t) ==
    /\ req[c].pc = "idle"
    /\ started < MaxCalls
    /\ req' = [req EXCEPT ![c] = [IdleReq EXCEPT !.pc = "pending",
                                                 !.op = "embed_text",
                                                 !.texts = <<t>>]]
    /\ started' = started + 1
    /\ UNCHANGED <<use_cache, batch_size, cache, running, queryCalls, queryOk,
                   docsOk, failures>>
    /\ EmbedFrame

RequestTexts(c, ts) ==
    /\ req[c].pc = "idle"
    /\ started < MaxCalls
    /\ req' = [req EXCEPT ![c] = [IdleReq EXCEPT !.pc = "pending",
                                                 !.op = "embed_texts",
                                                 !.texts = ts]]
    /\ started' = started + 1
    /\ UNCHANGED <<use_cache, batch_size, cache, running, queryCalls, queryOk,
                   docsOk, failures>>
    /\ EmbedFrame

\* embed_text, lines 59-64: the cache check.
embed_text_check(c) ==
    /\ req[c].pc = "pending"
    /\ req[c].op = "embed_text"
    /\ Runnable(c)
    /\ LET text == req[c].texts[1]
           cache_key == get_cache_key(text)
       IN IF use_cache /\ cache_key \in DOMAIN cache
          THEN /\ req' = [req EXCEPT ![c].pc = "done",
                                     ![c].hit = TRUE,
                                     ![c].embeddings = <<cache[cache_key]>>]
               /\ running' = NoCaller
          ELSE /\ req' = [req EXCEPT ![c].pc = "miss"]
               /\ running' = HolderAfterMiss(c)
    /\ UNCHANGED <<use_cache, batch_size, cache, queryCalls, queryOk, docsOk,
                   started, failures>>
    /\ EmbedFrame

\* embed_text, lines 66-73: the backend returns, the result is cached.
embed_text_backend_ok(c) ==
    /\ req[c].pc = "miss"
    /\ req[c].op = "embed_text"
    /\ Runnable(c)
    /\ LET text == req[c].texts[1]
           embedding == embed_query(text)
       IN /\ cache' = IF use_cache
                      THEN (get_cache_key(text) :> embedding) @@ cache
                      ELSE cache
          /\ req' = [req EXCEPT ![c].pc = "done",
                                ![c].embeddings = <<embedding>>,
                                ![c].ncalls = @ + 1]
          /\ queryCalls' = [queryCalls EXCEPT ![text] = @ + 1]
          /\ queryOk' = [queryOk EXCEPT ![text] = @ + 1]
    /\ running' = NoCaller
    /\ UNCHANGED <<use_cache, batch_size, docsOk, started, failures>>
    /\ EmbedFrame

\* embed_text, lines 67 and 75-77: the backend raises, the error propagates.
embed_text_backend_fail(c) ==
    /\ req[c].pc = "miss"
    /\ req[c].op = "embed_text"
    /\ Runnable(c)
    /\ failures < MaxFailures
    /\ req' = [req EXCEPT ![c].pc = "raised", ![c].ncalls = @ + 1]
    /\ queryCalls' = [queryCalls EXCEPT ![req[c].texts[1]] = @ + 1]
    /\ failures' = failures + 1
    /\ running' = NoCaller
    /\ UNCHANGED <<use_cache, batch_size, cache, queryOk, docsOk, started>>
    /\ EmbedFrame

\* embed_texts, lines 96-109: the indices of the texts to send to the
\* backend (every index when caching is off, the cache misses otherwise).
RECURSIVE MissIndices(_, _, _)
MissIndices(texts, n, c0) ==
    IF n = 0 THEN <<>>
    ELSE LET rest == MissIndices(texts, n - 1, c0)
         IN IF get_cache_key(texts[n]) \in DOMAIN c0
            THEN rest
            ELSE Append(rest, n)

TextIndicesShifted(texts) ==
    LET idx == IF use_cache THEN MissIndices(texts, Len(texts), cache)
               ELSE [k \in 1..Len(texts) |-> k]
    IN [k \in 1..Len(idx) |-> k]

TextIndices(texts) ==
    IF use_cache THEN MissIndices(texts, Len(texts), cache)
    ELSE [k \in 1..Len(texts) |-> k]

\* embed_texts, lines 96-109: the output list with the cache hits filled in
\* and a placeholder at every miss.
Placeholders(texts) ==
    [k \in 1..Len(texts) |->
        IF use_cache /\ get_cache_key(texts[k]) \in DOMAIN cache
        THEN cache[get_cache_key(texts[k])]
        ELSE None]

embed_texts_check(c) ==
    /\ req[c].pc = "pending"
    /\ req[c].op = "embed_texts"
    /\ Runnable(c)
    /\ LET texts == req[c].texts
           text_indices == TextIndices(texts)
           texts_to_embed == [k \in 1..Len(text_indices) |-> texts[text_indices[k]]]
       IN IF Len(texts_to_embed) = 0
          THEN /\ req' = [req EXCEPT ![c].pc = "done",
                                     ![c].hit = TRUE,
                                     ![c].embeddings = Placeholders(texts)]
               /\ running' = NoCaller
          ELSE /\ req' = [req EXCEPT ![c].pc = "miss",
                                     ![c].embeddings = Placeholders(texts),
                                     ![c].texts_to_embed = texts_to_embed,
                                     ![c].text_indices = text_indices,
                                     ![c].i = 0]
               /\ running' = HolderAfterMiss(c)
    /\ UNCHANGED <<use_cache, batch_size, cache, queryCalls, queryOk, docsOk,
                   started, failures>>
    /\ EmbedFrame

\* embed_texts, lines 118-124: the results of one batch written to the
\* output list at the original index, and to the cache.
RECURSIVE StoreBatchKeyByBatchPosition(_, _, _, _, _, _)
StoreBatchKeyByBatchPosition(r, i, batch_embeddings, j, embs, c0) ==
    IF j > Len(batch_embeddings) THEN [embeddings |-> embs, cache |-> c0]
    ELSE LET idx == r.text_indices[i + j]
             embedding == batch_embeddings[j]
         IN StoreBatchKeyByBatchPosition(r, i, batch_embeddings, j + 1,
                       [embs EXCEPT ![idx] = embedding],
                       IF use_cache
                       THEN (get_cache_key(r.texts[j]) :> embedding) @@ c0
                       ELSE c0)

RECURSIVE StoreBatch(_, _, _, _, _, _)
StoreBatch(r, i, batch_embeddings, j, embs, c0) ==
    IF j > Len(batch_embeddings) THEN [embeddings |-> embs, cache |-> c0]
    ELSE LET idx == r.text_indices[i + j]
             embedding == batch_embeddings[j]
         IN StoreBatch(r, i, batch_embeddings, j + 1,
                       [embs EXCEPT ![idx] = embedding],
                       IF use_cache
                       THEN (get_cache_key(r.texts[idx]) :> embedding) @@ c0
                       ELSE c0)

\* embed_texts, lines 113-115: texts_to_embed[i:i + batch_size] (i from 0).
Batch(r) == SubSeq(r.texts_to_embed, r.i + 1,
                   Min(r.i + batch_size, Len(r.texts_to_embed)))

embed_texts_batch_ok(c) ==
    /\ req[c].pc = "miss"
    /\ req[c].op = "embed_texts"
    /\ Runnable(c)
    /\ LET r == req[c]
           batch_embeddings == backend_embed_documents(Batch(r))
           st == StoreBatch(r, r.i, batch_embeddings, 1, r.embeddings, cache)
           next_i == r.i + batch_size
           finished == next_i >= Len(r.texts_to_embed)
       IN /\ cache' = st.cache
          /\ req' = [req EXCEPT ![c].embeddings = st.embeddings,
                                ![c].i = next_i,
                                ![c].ncalls = @ + 1,
                                ![c].pc = IF finished THEN "done" ELSE "miss"]
          /\ running' = IF finished THEN NoCaller ELSE running
          /\ docsOk' = docsOk \cup {Batch(r)[j] : j \in 1..Len(Batch(r))}
    /\ UNCHANGED <<use_cache, batch_size, queryCalls, queryOk, started,
                   failures>>
    /\ EmbedFrame

\* embed_texts, lines 115 and 133-135: a batch call raises.
embed_texts_batch_fail(c) ==
    /\ req[c].pc = "miss"
    /\ req[c].op = "embed_texts"
    /\ Runnable(c)
    /\ failures < MaxFailures
    /\ req' = [req EXCEPT ![c].pc = "raised", ![c].ncalls = @ + 1]
    /\ failures' = failures + 1
    /\ running' = NoCaller
    /\ UNCHANGED <<use_cache, batch_size, cache, queryCalls, queryOk, docsOk,
                   started>>
    /\ EmbedFrame

\* The caller has its result (or its exception) and goes on.
Return(c) ==
    /\ req[c].pc \in {"done", "raised"}
    /\ req' = [req EXCEPT ![c] = IdleReq]
    /\ UNCHANGED <<use_cache, batch_size, cache, running, queryCalls, queryOk,
                   docsOk, started, failures>>
    /\ EmbedFrame

InitEmbed ==
    /\ use_cache \in BOOLEAN
    /\ batch_size \in BatchSizes
    /\ cache = <<>>
    /\ req = [c \in Callers |-> IdleReq]
    /\ running = NoCaller
    /\ queryCalls = [t \in Texts |-> 0]
    /\ queryOk = [t \in Texts |-> 0]
    /\ docsOk = {}
    /\ started = 0
    /\ failures = 0

NextEmbed ==
    \E c \in Callers :
        \/ req[c].pc = "idle" /\ started < MaxCalls /\ \E t \in Texts : RequestText(c, t)
        \/ req[c].pc = "idle" /\ started < MaxCalls
              /\ \E ts \in SeqsUpTo(Texts, MaxLen) : RequestTexts(c, ts)
        \/ embed_text_check(c)
        \/ embed_text_backend_ok(c)
        \/ embed_text_backend_fail(c)
        \/ embed_texts_check(c)
        \/ embed_texts_batch_ok(c)
        \/ embed_texts_batch_fail(c)
        \/ Return(c)


---------------------------------------------------------------------------
(* DocumentTextSplitter and AdaptiveTextSplitter.  A text is a sequence of *)
(* characters.  The splitting itself is RecursiveCharacterTextSplitter of  *)
(* langchain, configured by the constructors of text_splitter.py; it is    *)
(* modelled after the algorithm section 4.2 of the specification outlines  *)
(* (split on the coarsest separator present, re-split oversized pieces on  *)
(* the next ones, merge pieces up to chunk_size, keep up to chunk_overlap  *)
(* of the tail for the next chunk) with the library's defaults             *)
(* keep_separator=True and strip_whitespace=True.                          *)

Alphabet == {"a", "b", " ", "\n", "."}

Whitespace == {" ", "\n"}

Pipe == "|"

\* The backquote character of a code fence.
Backtick == "backquote"

\* Default separators for semantic chunking, lines 38-45.
DefaultSeparators ==
    << <<"\n", "\n">>, <<"\n">>, <<".", " ">>, <<",", " ">>, <<" ">>, <<>> >>

\* Line 174.
CodeSeparators == << <<"\n", "\n">>, <<"\n">>, <<" ">>, <<>> >>

\* Line 180.
TableSeparators == << <<"\n", "\n">>, <<"\n">> >>

Concat(seqs) ==
    LET RECURSIVE Cat(_)
        Cat(k) == IF k = 0 THEN <<>> ELSE Cat(k - 1) \o seqs[k]
    IN Cat(Len(seqs))

\* str.strip(): leading and trailing whitespace removed.
RECURSIVE LStrip(_)
LStrip(s) == IF s # <<>> /\ Head(s) \in Whitespace THEN LStrip(Tail(s)) ELSE s

RECURSIVE RStrip(_)
RStrip(s) ==
    IF s # <<>> /\ s[Len(s)] \in Whitespace
    THEN RStrip(SubSeq(s, 1, Len(s) - 1)) ELSE s

Strip(s) == RStrip(LStrip(s))

\* separator occurs in text at position i.
IsAt(t, sep, i) ==
    /\ i + Len(sep) - 1 <= Len(t)
    /\ \A k \in 1..Len(sep) : t[i + k - 1] = sep[k]

Contains(t, sep) == \E i \in 1..Len(t) : IsAt(t, sep, i)

\* _split_text_with_regex with keep_separator: the text cut in front of
\* every (leftmost, non-overlapping) occurrence of the separator, each
\* separator kept at the head of the piece that follows it; character by
\* character for the empty separator; empty pieces dropped.
RECURSIVE SplitScan(_, _, _, _, _)
SplitScan(t, sep, i, cur, acc) ==
    IF i > Len(t) THEN Append(acc, cur)
    ELSE IF IsAt(t, sep, i)
         THEN SplitScan(t, sep, i + Len(sep), sep, Append(acc, cur))
         ELSE SplitScan(t, sep, i + 1, Append(cur, t[i]), acc)

split_text_with_regex(t, sep) ==
    IF sep = <<>> THEN [k \in 1..Len(t) |-> <<t[k]>>]
    ELSE SelectSeq(SplitScan(t, sep, 1, <<>>, <<>>), LAMBDA piece : piece # <<>>)

\* _join_docs with the separator "": the pieces joined and stripped; the
\* empty result stands for None.
join_docs(docs) == Strip(Concat(docs))

\* _merge_splits, the inner while loop: pieces are dropped from the head of
\* current_doc until at most chunk_overlap is kept and the next piece fits.
RECURSIVE PopHead(_, _, _, _, _)
PopHead(current_doc, total, len, size, overlap) ==
    IF total > overlap \/ (total + len > size /\ total > 0)
    THEN PopHead(Tail(current_doc), total - Len(Head(current_doc)), len, size, overlap)
    ELSE [current_doc |-> current_doc, total |-> total]

\* _merge_splits with the separator "" (keep_separator): pieces are
\* collected while they fit in chunk_size; a chunk is emitted when the next
\* piece does not fit.
RECURSIVE MergeFrom(_, _, _, _, _, _, _)
MergeFrom(splits, k, current_doc, total, docs, size, overlap) ==
    IF k > Len(splits)
    THEN IF join_docs(current_doc) # <<>>
         THEN Append(docs, join_docs(current_doc)) ELSE docs
    ELSE LET d == splits[k]
             len == Len(d)
             emit == total + len > size /\ current_doc # <<>>
             docs1 == IF emit /\ join_docs(current_doc) # <<>>
                      THEN Append(docs, join_docs(current_doc)) ELSE docs
             kept == IF emit THEN PopHead(current_doc, total, len, size, overlap)
                     ELSE [current_doc |-> current_doc, total |-> total]
         IN MergeFrom(splits, k + 1, Append(kept.current_doc, d),
                      kept.total + len, docs1, size, overlap)

merge_splits(splits, size, overlap) ==
    MergeFrom(splits, 1, <<>>, 0, <<>>, size, overlap)

\* _split_text: the index of the first separator that is "" or occurs in
\* the text; 0 when there is none (the last separator is then used and no
\* separator is left for the pieces).
RECURSIVE FirstSeparator(_, _, _)
FirstSeparator(t, separators, i) ==
    IF i > Len(separators) THEN 0
    ELSE IF separators[i] = <<>> \/ Contains(t, separators[i]) THEN i
    ELSE FirstSeparator(t, separators, i + 1)

\* _split_text: pieces shorter than chunk_size are merged; a piece that is
\* not is split again on the separators left, or taken as it is when none
\* is left.
RECURSIVE recursive_split_text(_, _, _, _)
RECURSIVE SplitPieces(_, _, _, _, _, _, _)
SplitPieces(splits, k, good_splits, final_chunks, new_separators, size, overlap) ==
    IF k > Len(splits)
    THEN IF good_splits # <<>>
         THEN final_chunks \o merge_splits(good_splits, size, overlap)
         ELSE final_chunks
    ELSE LET piece == splits[k]
         IN IF Len(piece) < size
            THEN SplitPieces(splits, k + 1, Append(good_splits, piece),
                             final_chunks, new_separators, size, overlap)
            ELSE LET merged == IF good_splits # <<>>
                               THEN final_chunks \o merge_splits(good_splits, size, overlap)
                               ELSE final_chunks
                     other == IF new_separators = <<>> THEN <<piece>>
                              ELSE recursive_split_text(piece, new_separators, size, overlap)
                 IN SplitPieces(splits, k + 1, <<>>, merged \o other,
                                new_separators, size, overlap)

recursive_split_text(t, separators, size, overlap) ==
    LET i == FirstSeparator(t, separators, 1)
        separator == IF i = 0 THEN separators[Len(separators)] ELSE separators[i]
        new_separators == IF i = 0 \/ separators[i] = <<>> THEN <<>>
                          ELSE SubSeq(separators, i + 1, Len(separators))
    IN SplitPieces(split_text_with_regex(t, separator), 1, <<>>, <<>>,
                   new_separators, size, overlap)

\* DocumentTextSplitter.__init__, lines 47-52: the splitter is built with
\* the chunk size, the overlap and the separators given.
SplitterChunkSizeFromOverlap(size, overlap) == Max(overlap, 1)

SplitterChunkSize(size, overlap) == size

SplitterChunkOverlapNone(size, overlap) == 0

SplitterChunkOverlap(size, overlap) == overlap

\* DocumentTextSplitter.split_text, lines 64-70.
split_text_dropping_last(t, size, overlap) ==
    LET cs == recursive_split_text(t, DefaultSeparators,
                                   SplitterChunkSize(size, overlap),
                                   SplitterChunkOverlap(size, overlap))
    IN IF cs = <<>> THEN cs ELSE SubSeq(cs, 1, Len(cs) - 1)

split_text_empty_chunk(t, size, overlap) ==
    IF t = <<>> THEN << <<>> >>
    ELSE recursive_split_text(t, DefaultSeparators, SplitterChunkSize(size, overlap),
                              SplitterChunkOverlap(size, overlap))

split_text(t, size, overlap) ==
    recursive_split_text(t, DefaultSeparators, SplitterChunkSize(size, overlap),
                         SplitterChunkOverlap(size, overlap))

\* str.count(sub): non-overlapping occurrences.
RECURSIVE CountFrom(_, _, _)
CountFrom(t, sub, i) ==
    IF i > Len(t) THEN 0
    ELSE IF IsAt(t, sub, i) THEN 1 + CountFrom(t, sub, i + Len(sub))
    ELSE CountFrom(t, sub, i + 1)

Count(t, sub) == CountFrom(t, sub, 1)

detect_content_type_table_first(t) ==
    IF Contains(t, <<Pipe>>) /\ Count(t, <<Pipe>>) > 10 THEN "table"
    ELSE IF Contains(t, <<Backtick, Backtick, Backtick>>)
               \/ Count(t, <<"\n", " ", " ", " ", " ">>) > 5
    THEN "code"
    ELSE "general"

\* AdaptiveTextSplitter._detect_content_type, lines 216-221.
detect_content_type(t) ==
    IF Contains(t, <<Backtick, Backtick, Backtick>>)
          \/ Count(t, <<"\n", " ", " ", " ", " ">>) > 5
    THEN "code"
    ELSE IF Contains(t, <<Pipe>>) /\ Count(t, <<Pipe>>) > 10 THEN "table"
    ELSE "general"

\* AdaptiveTextSplitter.split_documents, lines 191-199, on the content of
\* one document: the splitter of the detected class.  The chunk size is that
\* of the class in use (default_chunk_size, code_chunk_size or
\* table_chunk_size).
adaptive_split(t, size, overlap) ==
    LET ct == detect_content_type(t)
    IN recursive_split_text(t,
           IF ct = "code" THEN CodeSeparators
           ELSE IF ct = "table" THEN TableSeparators
           ELSE DefaultSeparators,
           size, overlap)

\* The texts handed to the splitter: a free part over the alphabet, alone or
\* after a run of table separators or a code fence.
Repeat(ch, n) == [k \in 1..n |-> ch]

Prefixes == {<<>>, Repeat(Pipe, 11), Repeat(Backtick, 3)}

SplitFrame == UNCHANGED <<evars, rvars, dvars, qvars, mvars, xvars>>

\* DocumentTextSplitter.split_text on the doc_text.
SplitText ==
    /\ split_pc = "input"
    /\ ~adaptive
    /\ chunks' = split_text(doc_text, chunk_size, chunk_overlap)
    /\ split_pc' = "split"
    /\ UNCHANGED <<doc_text, chunk_size, chunk_overlap, adaptive, content_type>>
    /\ SplitFrame

\* AdaptiveTextSplitter.split_documents on a document with this doc_text.
AdaptiveSplit ==
    /\ split_pc = "input"
    /\ adaptive
    /\ chunks' = adaptive_split(doc_text, chunk_size, chunk_overlap)
    /\ content_type' = detect_content_type(doc_text)
    /\ split_pc' = "split"
    /\ UNCHANGED <<doc_text, chunk_size, chunk_overlap, adaptive>>
    /\ SplitFrame

InitSplitIdle ==
    /\ doc_text = <<>>
    /\ chunk_size = 1
    /\ chunk_overlap = 0
    /\ adaptive = FALSE
    /\ chunks = <<>>
    /\ content_type = "none"
    /\ split_pc = "input"

InitSplit ==
    /\ adaptive \in BOOLEAN
    /\ \E prefix \in Prefixes, body \in SeqsUpTo(Alphabet, MaxTextLen) :
          /\ (~adaptive => prefix = <<>>)
          /\ doc_text = prefix \o body
    /\ chunk_size \in 1..MaxChunkSize
    /\ chunk_overlap \in 0..(chunk_size - 1)
    /\ chunks = <<>>
    /\ content_type = "none"
    /\ split_pc = "input"

NextSplit ==
    \/ SplitText
    \/ AdaptiveSplit

---------------------------------------------------------------------------
(* Claims about EmbeddingsService, checked under SpecEmbed.                *)

EmbedTextDone(c) == req[c].pc = "done" /\ req[c].op = "embed_text"

EmbedTextsDone(c) == req[c].pc = "done" /\ req[c].op = "embed_texts"

\* What embed_text(text) returns in the current state when the backend
\* answers: the stored vector on a cache hit, the backend's vector otherwise.
EmbedTextValue(text) ==
    IF use_cache /\ get_cache_key(text) \in DOMAIN cache
    THEN cache[get_cache_key(text)]
    ELSE embed_query(text)

\* C1 as stated: with caching enabled, the embed_text calls on one text
\* issue at most one backend call in all.
C1_AtMostOneBackendCallIssued ==
    use_cache => \A t \in Texts : queryCalls[t] <= 1

\* C1: with caching enabled, at most one embed_query call per text returns a
\* vector (every later embed_text on that text is a cache hit that makes no
\* backend call and returns the stored vector); a call that raised stores
\* nothing, so the next call asks the backend again.  embed_text never
\* returns for a text the backend was not asked about: distinct unseen texts
\* cost one backend call each.
C1_OneReturningCallPerText ==
    use_cache =>
        /\ \A t \in Texts : queryOk[t] <= 1
        /\ \A c \in Callers :
              EmbedTextDone(c) =>
                 LET t == req[c].texts[1]
                 IN /\ queryOk[t] >= 1 \/ t \in docsOk
                    /\ req[c].hit =>
                          /\ req[c].ncalls = 0
                          /\ req[c].embeddings = <<cache[get_cache_key(t)]>>
                    /\ ~req[c].hit => req[c].ncalls = 1

\* C1 witness: a second embed_text on a text answered from the cache, after
\* embed_query returned for that text and for another one.
C1_Witness ==
    /\ use_cache
    /\ \E c \in Callers :
          /\ EmbedTextDone(c)
          /\ req[c].hit
          /\ queryOk[req[c].texts[1]] = 1
          /\ \E t \in Texts : t # req[c].texts[1] /\ queryOk[t] = 1

\* C2: embed_texts returns one vector per input text, in input order: element
\* k is what embed_text(texts[k]) returns, and no placeholder is left.
C2_BatchPreservesOrder ==
    \A c \in Callers :
        EmbedTextsDone(c) =>
            /\ Len(req[c].embeddings) = Len(req[c].texts)
            /\ \A k \in 1..Len(req[c].texts) :
                  /\ req[c].embeddings[k] # None
                  /\ req[c].embeddings[k] = EmbedTextValue(req[c].texts[k])

\* C2 witness: a finished embed_texts call on two distinct texts, the first
\* a cache hit and the second a miss.
C2_Witness ==
    \E c \in Callers :
        /\ EmbedTextsDone(c)
        /\ use_cache
        /\ Len(req[c].texts) = 2
        /\ req[c].texts[1] # req[c].texts[2]
        /\ req[c].text_indices = <<2>>

\* Every cache entry is the vector the backend returned for a text with
\* that key.
CacheSound ==
    /\ DOMAIN cache \subseteq {get_cache_key(t) : t \in Texts}
    /\ \A t \in Texts :
          get_cache_key(t) \in DOMAIN cache =>
             /\ cache[get_cache_key(t)] = embed_query(t)
             /\ queryOk[t] >= 1 \/ t \in docsOk

\* C3: a backend call that raises writes nothing to the cache, and every
\* cache entry is a vector the backend returned for its text.
C3_NoFailedResultCached ==
    [][(failures' # failures => cache' = cache) /\ CacheSound']_vars

\* C3 witness: embed_texts raised on its second batch, after the first
\* batch was cached.
C3_Witness ==
    \E c \in Callers :
        /\ req[c].pc = "raised"
        /\ req[c].op = "embed_texts"
        /\ req[c].ncalls = 2
        /\ use_cache
        /\ Cardinality(DOMAIN cache) = 1

\* The keys a call has missed and not inserted yet.
PendingKeys(c) ==
    IF req[c].pc # "miss" THEN {}
    ELSE IF req[c].op = "embed_text" THEN {get_cache_key(req[c].texts[1])}
    ELSE {get_cache_key(req[c].texts_to_embed[k]) :
             k \in (req[c].i + 1)..Len(req[c].texts_to_embed)}

\* C4: two callers are never both between the cache miss and the insert for
\* the same key.
C4_CheckThenInsertAtomic ==
    use_cache =>
        \A c1, c2 \in Callers :
            c1 # c2 => PendingKeys(c1) \cap PendingKeys(c2) = {}

\* C4 witness: one caller has missed the cache for a text and waits for the
\* backend while another caller's request for the same text is pending.
C4_Witness ==
    /\ use_cache
    /\ \E c1, c2 \in Callers :
          /\ c1 # c2
          /\ req[c1].pc = "miss"
          /\ req[c2].pc = "pending"
          /\ req[c1].op = "embed_text"
          /\ req[c2].op = "embed_text"
          /\ req[c1].texts = req[c2].texts

---------------------------------------------------------------------------
(* OpenAIClientWrapper                                                     *)

\* stop_after_attempt(5) of the three @retry decorators.
StopAfterAttempt == 5

\* The exceptions a backend call raises: the three the decorators retry on,
\* another APIError (a rejected request) and an exception of another kind.
TransientErrors == {"RateLimitError", "APIConnectionError", "APITimeoutError"}

BackendErrors == TransientErrors \cup {"BadRequestError", "ValueError"}

\* retry_if_exception_type((RateLimitError, APIConnectionError,
\* APITimeoutError)).
RetryIfAnyException(e) == TRUE

RetryIf(e) == e \in TransientErrors

ClientOps == {"chat_completion", "async_chat_completion", "create_embeddings",
              "async_create_embeddings"}

\* The methods that carry the @retry decorator (lines 69, 128, 177);
\* async_create_embeddings (line 226) carries none.
Decorated(op) ==
    op \in {"chat_completion", "async_chat_completion", "create_embeddings"}

\* wait_exponential(multiplier=1, min=2, max=60) before attempt n + 1.
RECURSIVE Pow2(_)
Pow2(n) == IF n = 0 THEN 1 ELSE 2 * Pow2(n - 1)

wait_exponential(attempt_number) == Max(2, Min(Pow2(attempt_number - 1), 60))

\* The default model of each method and its price per token, in 1e-7 dollars
\* (self.pricing is per 1K tokens).
DefaultModel(op) ==
    IF op \in {"chat_completion", "async_chat_completion"}
    THEN "gpt-4-turbo-preview" ELSE "text-embedding-ada-002"

Pricing(model) ==
    IF model = "gpt-4-turbo-preview" THEN [input |-> 100, output |-> 300]
    ELSE [input |-> 1, output |-> 0]

calculate_cost(model, input_tokens, output_tokens) ==
    input_tokens * Pricing(model).input + output_tokens * Pricing(model).output

\* The usage a response carries: none, or token counts.
NoUsage == [prompt_tokens |-> 0, completion_tokens |-> 0, total_tokens |-> 0]

Usages(op) ==
    IF op \in {"chat_completion", "async_chat_completion"}
    THEN {NoUsage, [prompt_tokens |-> 1, completion_tokens |-> 1, total_tokens |-> 2]}
    ELSE {NoUsage, [prompt_tokens |-> 1, completion_tokens |-> 0, total_tokens |-> 1]}

\* The choices a chat completion response carries: the methods read
\* response.choices[0] (lines 111-113, 160-162); an embeddings response is
\* read item by item, whatever their number.
Choices(op) ==
    IF op \in {"chat_completion", "async_chat_completion"} THEN {0, 1} ELSE {1}

\* The state of a call: its attempts so far, the transient errors retried,
\* the exception of the last attempt and the one the caller gets, the usage
\* of the response that was being read when it raised, and the statistics
\* at its start.
IdleCall == [pc |-> "idle", op |-> "none", attempt_number |-> 0,
             transient_seen |-> 0, cause |-> "none", surfaced |-> "none",
             read |-> NoUsage, last_wait |-> 0, tokens0 |-> 0, cost0 |-> 0]

\* The OpenAIClientWrapper operations leave the other components alone.
ClientFrame == UNCHANGED <<evars, svars, dvars, qvars, mvars, xvars>>

\* A method of the wrapper is called: the first attempt starts.
ClientCall(op) ==
    /\ call.pc = "idle"
    /\ client_calls < MaxClientCalls
    /\ call' = [IdleCall EXCEPT !.pc = "trying", !.op = op,
                                !.attempt_number = 1,
                                !.tokens0 = total_tokens_used,
                                !.cost0 = total_cost]
    /\ client_calls' = client_calls + 1
    /\ UNCHANGED <<total_tokens_used, total_cost>>
    /\ ClientFrame

\* An attempt raises e inside the method: the except clauses log and
\* re-raise; the @retry decorator, when the method has one, sleeps and calls
\* again while the exception is one it retries on and attempts are left,
\* raises RetryError after the last attempt, and lets any other exception
\* through.
AfterRaise(c, e, usage) ==
    IF Decorated(c.op) /\ RetryIf(e)
    THEN IF c.attempt_number < StopAfterAttempt
         THEN [c EXCEPT !.attempt_number = @ + 1,
                        !.transient_seen = IF e \in TransientErrors THEN @ + 1 ELSE @,
                        !.cause = e,
                        !.last_wait = wait_exponential(c.attempt_number)]
         ELSE [c EXCEPT !.pc = "raised", !.cause = e, !.surfaced = "RetryError",
                        !.read = usage]
    ELSE [c EXCEPT !.pc = "raised", !.cause = e, !.surfaced = e, !.read = usage]

\* The backend call returns: _update_usage_stats when the response carries
\* usage, then the result is built from the response and returned; reading
\* choices[0] of a response without choices raises IndexError.
AttemptReturns(usage, n_choices) ==
    /\ call.pc = "trying"
    /\ usage \in Usages(call.op)
    /\ n_choices \in Choices(call.op)
    /\ IF usage # NoUsage
       THEN /\ total_tokens_used' = total_tokens_used + usage.total_tokens
            /\ total_cost' = total_cost +
                   calculate_cost(DefaultModel(call.op), usage.prompt_tokens,
                                  usage.completion_tokens)
       ELSE UNCHANGED <<total_tokens_used, total_cost>>
    /\ call' = IF n_choices = 0 THEN AfterRaise(call, "IndexError", usage)
               ELSE [call EXCEPT !.pc = "returned"]
    /\ UNCHANGED client_calls
    /\ ClientFrame

\* The backend call raises.
AttemptRaises(e) ==
    /\ call.pc = "trying"
    /\ e \in BackendErrors
    /\ call' = AfterRaise(call, e, NoUsage)
    /\ UNCHANGED <<total_tokens_used, total_cost, client_calls>>
    /\ ClientFrame

\* The caller has the result or the exception.
ClientReturn ==
    /\ call.pc \in {"returned", "raised"}
    /\ call' = IdleCall
    /\ UNCHANGED <<total_tokens_used, total_cost, client_calls>>
    /\ ClientFrame

\* reset_usage_stats, between calls.
reset_usage_stats ==
    /\ call.pc = "idle"
    /\ total_tokens_used # 0
    /\ total_tokens_used' = 0
    /\ total_cost' = 0
    /\ UNCHANGED <<call, client_calls>>
    /\ ClientFrame

InitClientIdle ==
    /\ total_tokens_used = 0
    /\ total_cost = 0
    /\ call = IdleCall
    /\ client_calls = 0

\* The cache files load_cache can read: an empty cache, and a cache saved
\* by a run whose backend gave another vector for text 1.
CacheFiles == {<<>>, (get_cache_key(1) :> <<1, 0>>)}

\* clear_cache, lines 178-181.
ClearCache ==
    /\ running = NoCaller
    /\ started < MaxCalls
    /\ cache' = <<>>
    /\ started' = started + 1
    /\ UNCHANGED <<use_cache, batch_size, req, running, queryCalls, queryOk,
                   docsOk, failures>>
    /\ EmbedFrame

\* load_cache, lines 202-212: the cache becomes the content of the file.
LoadCacheOk(file) ==
    /\ running = NoCaller
    /\ started < MaxCalls
    /\ cache' = file
    /\ started' = started + 1
    /\ UNCHANGED <<use_cache, batch_size, req, running, queryCalls, queryOk,
                   docsOk, failures>>
    /\ EmbedFrame

\* load_cache, lines 213-215: the file cannot be read, the cache is kept.
LoadCacheFail ==
    /\ running = NoCaller
    /\ started < MaxCalls
    /\ started' = started + 1
    /\ UNCHANGED <<use_cache, batch_size, cache, req, running, queryCalls,
                   queryOk, docsOk, failures>>
    /\ EmbedFrame

\* A service that caches, with either batch size.
InitCache ==
    /\ use_cache = TRUE
    /\ batch_size \in BatchSizes
    /\ cache = <<>>
    /\ req = [c \in Callers |-> IdleReq]
    /\ running = NoCaller
    /\ queryCalls = [t \in Texts |-> 0]
    /\ queryOk = [t \in Texts |-> 0]
    /\ docsOk = {}
    /\ started = 0
    /\ failures = 0

NextCache ==
    \/ NextEmbed
    \/ ClearCache
    \/ \E file \in CacheFiles : LoadCacheOk(file)
    \/ LoadCacheFail

InitEmbedIdle ==
    /\ use_cache = TRUE
    /\ batch_size = 1
    /\ cache = <<>>
    /\ req = [c \in Callers |-> IdleReq]
    /\ running = NoCaller
    /\ queryCalls = [t \in Texts |-> 0]
    /\ queryOk = [t \in Texts |-> 0]
    /\ docsOk = {}
    /\ started = 0
    /\ failures = 0

NextRetry ==
    \/ \E op \in ClientOps : ClientCall(op)
    \/ \E usage \in UNION {Usages(op) : op \in ClientOps},
          n_choices \in UNION {Choices(op) : op \in ClientOps} :
             AttemptReturns(usage, n_choices)
    \/ \E e \in BackendErrors : AttemptRaises(e)
    \/ ClientReturn
    \/ reset_usage_stats

---------------------------------------------------------------------------
(* DocumentService.upload_and_process_document: a file is loaded into page *)
(* documents, split into chunks, tagged, embedded and upserted.  Metadata  *)
(* are functions from keys to values.                                      *)

MaxPages == 2      \* most pages of an uploaded file
MaxUploads == 2    \* uploads in one behaviour

DocIds == {"d1", "d2"}

PageTexts == {<<>>, <<"a", "b", " ", "b">>, Repeat(Backtick, 3)}

\* The uploaded files: a text file, or a PDF of some pages.
Files ==
    {[file_type |-> "txt", pages |-> <<t>>] : t \in PageTexts}
       \cup {[file_type |-> "pdf", pages |-> ps] : ps \in SeqsUpTo(PageTexts, MaxPages)}

Doc(text, md) == [page_content |-> text, metadata |-> md]

\* dict[key] = value on a copy.
With(md, key, value) == (key :> value) @@ md

\* DocumentLoader._load_pdf: one document per page whose text is not blank,
\* tagged with its page number.
load_pdf(pages) ==
    LET shown == SelectSeq([k \in 1..Len(pages) |-> k],
                           LAMBDA k : Strip(pages[k]) # <<>>)
        md == ("source" :> "tmp") @@ ("file_type" :> "pdf")
                 @@ ("num_pages" :> Len(pages))
    IN [j \in 1..Len(shown) |-> Doc(pages[shown[j]], With(md, "page", shown[j]))]

\* DocumentLoader._load_text: one document with the text of the file.
load_text(text) == <<Doc(text, ("source" :> "tmp") @@ ("file_type" :> "txt"))>>

\* DocumentLoader.load_from_bytes: the documents of the file, each with the
\* original file name.
load_from_bytes(file) ==
    LET documents == IF file.file_type = "pdf" THEN load_pdf(file.pages)
                     ELSE load_text(file.pages[1])
    IN [k \in 1..Len(documents) |->
           Doc(documents[k].page_content,
               With(documents[k].metadata, "original_filename", "f"))]

\* TextSplitter.split_documents of langchain: the chunks of every document
\* in turn, each with a copy of the metadata of its document.
library_split_documents(documents, separators, size, overlap) ==
    Concat([k \in 1..Len(documents) |->
               LET cs == recursive_split_text(documents[k].page_content,
                                              separators, size, overlap)
               IN [j \in 1..Len(cs) |-> Doc(cs[j], documents[k].metadata)]])

\* DocumentTextSplitter.split_documents, lines 86-98: every chunk gets its
\* position in the result as chunk_id, and its length.
split_documents(documents, size, overlap) ==
    LET chunked_docs == library_split_documents(documents, DefaultSeparators,
                            SplitterChunkSize(size, overlap),
                            SplitterChunkOverlap(size, overlap))
    IN [i \in 1..Len(chunked_docs) |->
           Doc(chunked_docs[i].page_content,
               With(With(chunked_docs[i].metadata, "chunk_id", i - 1),
                    "chunk_size", Len(chunked_docs[i].page_content)))]

\* AdaptiveTextSplitter.split_documents, lines 187-209: every document is
\* split by the splitter of its class and its chunks get the class.
adaptive_split_documents(documents, size, overlap) ==
    Concat([k \in 1..Len(documents) |->
               LET doc == documents[k]
                   ct == detect_content_type(doc.page_content)
                   cs == library_split_documents(<<doc>>,
                            IF ct = "code" THEN CodeSeparators
                            ELSE IF ct = "table" THEN TableSeparators
                            ELSE DefaultSeparators, size, overlap)
               IN [j \in 1..Len(cs) |->
                      Doc(cs[j].page_content, With(cs[j].metadata, "content_type", ct))]])

\* f"{document_id}_chunk_{i}", and a bare document id, as strings of tokens.
ChunkVectorId(document_id, i) == <<document_id, "_chunk_", i>>

BareId(document_id) == <<document_id>>

\* upload_and_process_document, lines 82-84.
tag_chunks(cs, document_id) ==
    [i \in 1..Len(cs) |->
        Doc(cs[i].page_content,
            With(With(cs[i].metadata, "document_id", document_id),
                 "id", ChunkVectorId(document_id, i - 1)))]

\* The text as a number, for the embedding backend.
CharCode(ch) ==
    CASE ch = "a" -> 1 [] ch = "b" -> 2 [] ch = " " -> 3 [] ch = "\n" -> 4
      [] ch = "." -> 5 [] ch = Pipe -> 6 [] OTHER -> 7

RECURSIVE TextCode(_)
TextCode(t) == IF t = <<>> THEN 0 ELSE (TextCode(Tail(t)) * 8 + CharCode(Head(t))) % 1000

\* EmbeddingsService.embed_documents, lines 152-168: one vector per chunk,
\* under the id of its metadata, with the metadata and the text.
embed_documents(documents) ==
    [i \in 1..Len(documents) |->
        [id |-> IF "id" \in DOMAIN documents[i].metadata
                THEN documents[i].metadata["id"] ELSE <<"doc_", i - 1>>,
         values |-> embed_query(TextCode(documents[i].page_content)),
         metadata |-> With(documents[i].metadata, "text", documents[i].page_content)]]

\* PineconeService.upsert on the index: the vectors stored under their ids.
upsert(idx, vectors) ==
    LET ids == {vectors[i].id : i \in 1..Len(vectors)}
        last(id) == CHOOSE i \in 1..Len(vectors) :
                       /\ vectors[i].id = id
                       /\ \A j \in (i + 1)..Len(vectors) : vectors[j].id # id
    IN [id \in DOMAIN idx \cup ids |->
           IF id \in ids
           THEN [values |-> vectors[last(id)].values,
                 metadata |-> vectors[last(id)].metadata]
           ELSE idx[id]]

EmptyMap == [x \in {} |-> x]

IdleUpload == [pc |-> "idle", document_id |-> "none", file |-> <<>>,
               documents |-> <<>>, chunks |-> <<>>]

IngestFrame == UNCHANGED <<evars, rvars, svars, qvars, mvars, xvars>>

\* upload_and_process_document, lines 52-63: a fresh document id, the
\* registry entry in status processing.
UploadStart(d, file) ==
    /\ upload.pc = "idle"
    /\ Cardinality(DOMAIN documents_db) < MaxUploads
    /\ d \notin DOMAIN documents_db
    /\ documents_db' = (d :> [status |-> "processing", num_chunks |-> 0]) @@ documents_db
    /\ upload' = [IdleUpload EXCEPT !.pc = "loading", !.document_id = d, !.file = file]
    /\ UNCHANGED index
    /\ IngestFrame

\* Lines 66-75.
UploadLoad ==
    /\ upload.pc = "loading"
    /\ upload' = [upload EXCEPT !.pc = "splitting",
                                !.documents = load_from_bytes(upload.file)]
    /\ UNCHANGED <<documents_db, index>>
    /\ IngestFrame

\* Lines 78-79: the splitter create_text_splitter made.
UploadSplit ==
    /\ upload.pc = "splitting"
    /\ LET cs == IF adaptive
                 THEN adaptive_split_documents(upload.documents, chunk_size, chunk_overlap)
                 ELSE split_documents(upload.documents, chunk_size, chunk_overlap)
       IN /\ upload' = [upload EXCEPT !.pc = "tagging", !.chunks = cs]
          /\ documents_db' = [documents_db EXCEPT ![upload.document_id].num_chunks = Len(cs)]
    /\ UNCHANGED index
    /\ IngestFrame

\* Lines 82-84.
UploadTag ==
    /\ upload.pc = "tagging"
    /\ upload' = [upload EXCEPT !.pc = "embedding",
                                !.chunks = tag_chunks(upload.chunks, upload.document_id)]
    /\ UNCHANGED <<documents_db, index>>
    /\ IngestFrame

\* Lines 87-96: the vectors are made and upserted, the status is completed.
UploadStore ==
    /\ upload.pc = "embedding"
    /\ index' = upsert(index, embed_documents(upload.chunks))
    /\ documents_db' = [documents_db EXCEPT ![upload.document_id].status = "completed"]
    /\ upload' = [upload EXCEPT !.pc = "done"]
    /\ IngestFrame

\* The caller has the metadata of the document.
UploadReturn ==
    /\ upload.pc = "done"
    /\ upload' = IdleUpload
    /\ UNCHANGED <<documents_db, index>>
    /\ IngestFrame

InitIngestIdle ==
    /\ documents_db = EmptyMap
    /\ index = EmptyMap
    /\ upload = IdleUpload

\* The splitter of the service: any chunk size and overlap, either kind.
InitIngestSplitter ==
    /\ doc_text = <<>>
    /\ chunk_size \in 1..MaxChunkSize
    /\ chunk_overlap \in 0..(chunk_size - 1)
    /\ adaptive \in BOOLEAN
    /\ chunks = <<>>
    /\ content_type = "none"
    /\ split_pc = "input"

NextIngest ==
    \/ \E d \in DocIds, file \in Files : UploadStart(d, file)
    \/ UploadLoad
    \/ UploadSplit
    \/ UploadTag
    \/ UploadStore
    \/ UploadReturn
    \/ SplitText
    \/ AdaptiveSplit

---------------------------------------------------------------------------
(* SearchService: search, search_with_answer and find_similar_documents on *)
(* the index that ingestion filled, with the QAChain for the answer.       *)

MaxTopK == 2    \* largest top_k asked for

Queries == {<<"a">>, <<"b">>}

\* A metadata filter: the keys and the values an entry must have; none.
NoFilter == EmptyMap

DocumentFilter(d) == ("document_id" :> d)

Filters == {NoFilter} \cup {DocumentFilter(d) : d \in DocIds}

\* The vectors upload_and_process_document stores for a file.
IngestedVectors(d, file, size, overlap) ==
    embed_documents(tag_chunks(split_documents(load_from_bytes(file), size, overlap), d))

\* The index compares vectors: the closer, the higher the score.
Score(u, v) == 100 - (IF u[1] > v[1] THEN u[1] - v[1] ELSE v[1] - u[1])

Matches(idx, filter) ==
    {id \in DOMAIN idx :
        \A key \in DOMAIN filter :
           key \in DOMAIN idx[id].metadata /\ idx[id].metadata[key] = filter[key]}

\* Index.query of Pinecone: the top_k entries that pass the filter, best
\* score first.
RECURSIVE TopK(_, _, _, _)
TopK(idx, ids, q, k) ==
    IF k = 0 \/ ids = {} THEN <<>>
    ELSE LET best == CHOOSE x \in ids :
                        \A y \in ids : Score(q, idx[x].values) >= Score(q, idx[y].values)
         IN <<[id |-> best, score |-> Score(q, idx[best].values),
               metadata |-> idx[best].metadata]>>
               \o TopK(idx, ids \ {best}, q, k - 1)

\* PineconeService.query, lines 153-168.
pinecone_query(idx, query_vector, top_k, filter) ==
    TopK(idx, Matches(idx, filter), query_vector, top_k)

\* PineconeService.fetch, lines 222-228: the vectors stored under the ids.
pinecone_fetch(idx, ids) == [id \in ids \cap DOMAIN idx |-> idx[id]]

\* SearchResult of a match, lines 63-68 and 166-171.
SearchResult(match) ==
    [document_id |-> match.id, score |-> match.score,
     text |-> IF "text" \in DOMAIN match.metadata THEN match.metadata["text"] ELSE <<>>,
     metadata |-> match.metadata]

FormatResults(matches) == [k \in 1..Len(matches) |-> SearchResult(matches[k])]

\* find_similar_documents, lines 163-176: the matches but the one stored
\* under the id asked for, at most top_k of them.
SimilarResults(matches, document_id, top_k) ==
    LET others == SelectSeq(matches, LAMBDA m : m.id # document_id)
    IN FormatResults(SubSeq(others, 1, Min(top_k, Len(others))))

SearchOps == {"search", "search_with_answer", "find_similar_documents"}

\* The state of a SearchService call: what the caller asked, what reached
\* the index, the calls made to the backends, and what the caller got.
IdleSearch == [pc |-> "idle", op |-> "none", query |-> <<>>, top_k |-> 0,
               wanted_filter |-> NoFilter, document_id |-> <<>>,
               query_vector |-> <<>>, queried |-> FALSE, filter |-> NoFilter,
               results |-> <<>>, retrieved |-> FALSE, gen_calls |-> 0,
               answered |-> FALSE, error |-> "none",
               has_sources |-> FALSE, sources |-> <<>>]

SearchFrame == UNCHANGED <<evars, rvars, svars, dvars, chat_history, qa, sessions, mvars,
                           xvars>>

\* search(query, top_k, filter=...) is called.
SearchCall(query, top_k, filter) ==
    /\ search.pc = "idle"
    /\ search' = [IdleSearch EXCEPT !.pc = "embedding", !.op = "search",
                                    !.query = query, !.top_k = top_k,
                                    !.wanted_filter = filter, !.filter = filter]
    /\ SearchFrame

\* search_with_answer(query, top_k) is called; the method has no filter
\* parameter (lines 86-90), so a call that passes one raises TypeError.
\* It calls search(query, top_k), line 103: without a filter.
SearchWithAnswerCall(query, top_k, filter) ==
    /\ search.pc = "idle"
    /\ search' = IF filter = NoFilter
                 THEN [IdleSearch EXCEPT !.pc = "embedding", !.op = "search_with_answer",
                                         !.query = query, !.top_k = top_k]
                 ELSE [IdleSearch EXCEPT !.pc = "raised", !.op = "search_with_answer",
                                         !.query = query, !.top_k = top_k,
                                         !.wanted_filter = filter,
                                         !.error = "TypeError"]
    /\ SearchFrame

\* search, line 49: the query is embedded.
SearchEmbedOk ==
    /\ search.pc = "embedding"
    /\ search' = [search EXCEPT !.pc = "querying",
                                !.query_vector = embed_query(TextCode(search.query))]
    /\ SearchFrame

\* The exception of a failed retrieval step leaves search (lines 82-84) and
\* search_with_answer (lines 126-128).
AfterRetrievalFailureGenerating(c, e) ==
    IF c.op = "search_with_answer"
    THEN [c EXCEPT !.pc = "generating", !.error = e]
    ELSE [c EXCEPT !.pc = "raised", !.error = e]

AfterRetrievalFailure(c, e) == [c EXCEPT !.pc = "raised", !.error = e]

SearchEmbedFail ==
    /\ search.pc = "embedding"
    /\ search' = AfterRetrievalFailure(search, "EmbeddingError")
    /\ SearchFrame

\* search, lines 52-80: the index is queried with the filter and the matches
\* are formatted; search returns them, search_with_answer goes on.
SearchQueryOk ==
    /\ search.pc = "querying"
    /\ LET matches == pinecone_query(index, search.query_vector, search.top_k,
                                     search.filter)
           c == [search EXCEPT !.queried = TRUE, !.retrieved = TRUE,
                               !.results = FormatResults(matches)]
       IN search' = IF search.op = "search"
                    THEN [c EXCEPT !.pc = "returned", !.has_sources = TRUE,
                                   !.sources = c.results]
                    ELSE [c EXCEPT !.pc = "generating"]
    /\ SearchFrame

SearchQueryFail ==
    /\ search.pc = "querying"
    /\ search' = AfterRetrievalFailure([search EXCEPT !.queried = TRUE], "IndexQueryError")
    /\ SearchFrame

\* search_with_answer, lines 105-124, and QAChain.answer_question: one
\* chain.invoke; the results and the answer are returned.
GenerateOk ==
    /\ search.pc = "generating"
    /\ search' = [search EXCEPT !.pc = "returned", !.gen_calls = @ + 1,
                                !.answered = TRUE, !.has_sources = TRUE,
                                !.sources = search.results]
    /\ SearchFrame

\* chain.invoke raises: answer_question logs and re-raises (lines 150-152),
\* search_with_answer logs and re-raises (lines 126-128).
GenerateFail ==
    /\ search.pc = "generating"
    /\ search' = [search EXCEPT !.pc = "raised", !.gen_calls = @ + 1,
                                !.error = "GenerationError"]
    /\ SearchFrame

\* find_similar_documents(document_id, top_k) is called.
FindSimilarCall(document_id, top_k) ==
    /\ search.pc = "idle"
    /\ search' = [IdleSearch EXCEPT !.pc = "fetching", !.op = "find_similar_documents",
                                    !.document_id = document_id, !.top_k = top_k]
    /\ SearchFrame

\* Lines 147-176: the vector stored under document_id is fetched; without
\* it, ValueError; with it, the index is queried for top_k + 1 neighbours.
FindSimilarOk ==
    /\ search.pc = "fetching"
    /\ LET vectors == pinecone_fetch(index, {search.document_id})
       IN search' =
             IF DOMAIN vectors = {}
             THEN [search EXCEPT !.pc = "raised", !.error = "ValueError"]
             ELSE LET matches == pinecone_query(index,
                                    vectors[search.document_id].values,
                                    search.top_k + 1, NoFilter)
                      rs == SimilarResults(matches, search.document_id, search.top_k)
                  IN [search EXCEPT !.pc = "returned", !.queried = TRUE,
                                    !.retrieved = TRUE, !.results = rs,
                                    !.has_sources = TRUE, !.sources = rs]
    /\ SearchFrame

\* fetch or query raises.
FindSimilarFail ==
    /\ search.pc = "fetching"
    /\ search' = [search EXCEPT !.pc = "raised", !.error = "IndexQueryError"]
    /\ SearchFrame

\* The caller has the result or the exception.
SearchReturn ==
    /\ search.pc \in {"returned", "raised"}
    /\ search' = IdleSearch
    /\ SearchFrame

\* The files whose vectors are in the index when the searches start.
IndexedFiles == {file \in Files : file.file_type = "txt"}

\* The index after two uploads have completed.
InitSearchIndex ==
    /\ \E f1 \in IndexedFiles, f2 \in IndexedFiles :
          LET v1 == IngestedVectors("d1", f1, MaxChunkSize, 0)
              v2 == IngestedVectors("d2", f2, MaxChunkSize, 0)
          IN /\ index = upsert(upsert(EmptyMap, v1), v2)
             /\ documents_db = ("d1" :> [status |-> "completed", num_chunks |-> Len(v1)])
                                 @@ ("d2" :> [status |-> "completed", num_chunks |-> Len(v2)])
    /\ upload = IdleUpload

\* The ids find_similar_documents is asked about: document ids, and the ids
\* of stored vectors.
SimilarArguments == {BareId(d) : d \in DocIds} \cup DOMAIN index

NextSearch ==
    \/ \E query \in Queries, top_k \in 1..MaxTopK, filter \in Filters :
          SearchCall(query, top_k, filter)
    \/ \E query \in Queries, top_k \in 1..MaxTopK, filter \in Filters :
          SearchWithAnswerCall(query, top_k, filter)
    \/ SearchEmbedOk
    \/ SearchEmbedFail
    \/ SearchQueryOk
    \/ SearchQueryFail
    \/ GenerateOk
    \/ GenerateFail
    \/ \E document_id \in SimilarArguments, top_k \in 1..MaxTopK :
          FindSimilarCall(document_id, top_k)
    \/ FindSimilarOk
    \/ FindSimilarFail
    \/ SearchReturn

---------------------------------------------------------------------------
(* QAChain.answer_with_conversation_history and clear_history: the one     *)
(* QAChain of the process-wide SearchService, asked by several sessions;   *)
(* and the sessions TeamsBot keeps.                                        *)

MaxTurns == 6        \* turns asked before the model stops asking

HistoryWindow == 5   \* self.chat_history[-5:]

Sessions == {"s1", "s2"}

\* The questions of a session; no two sessions ask the same question.
Question(s) == <<s, "?">>

Answers == {"answer"}

\* seq[-n:]
LastN(seq, n) == IF Len(seq) <= n THEN seq ELSE SubSeq(seq, Len(seq) - n + 1, Len(seq))

\* self.chat_history.append({...}), lines 194-198.
append_turn(history, turn) == Append(history, turn)

IdleQa == [pc |-> "idle", session |-> "none", question |-> <<>>,
           update_history |-> FALSE, rendered |-> <<>>, answer |-> "none",
           conversation_turns |-> 0]

\* A session of TeamsBot.user_sessions, lines 38-41 and 216-219.
NewSession == [conversation_history |-> <<>>, last_command |-> "none"]

QaFrame == UNCHANGED <<evars, rvars, svars, dvars, search, mvars, xvars>>

\* answer_with_conversation_history is called for session s, lines 171-178:
\* the last turns of the history are rendered into the prompt.
AskRender(s, update_history) ==
    /\ qa.pc = "idle"
    /\ Len(chat_history) < MaxTurns
    /\ qa' = [IdleQa EXCEPT !.pc = "invoking", !.session = s,
                            !.question = Question(s),
                            !.update_history = update_history,
                            !.rendered = LastN(chat_history, HistoryWindow)]
    /\ UNCHANGED <<chat_history, sessions>>
    /\ QaFrame

\* Lines 184-209: the chain answers; the turn is added to the history when
\* update_history is set.
AskInvokeOk(answer) ==
    /\ qa.pc = "invoking"
    /\ chat_history' = IF qa.update_history
                       THEN append_turn(chat_history,
                                        [question |-> qa.question, answer |-> answer])
                       ELSE chat_history
    /\ qa' = [qa EXCEPT !.pc = "returned", !.answer = answer,
                        !.conversation_turns = Len(chat_history')]
    /\ UNCHANGED sessions
    /\ QaFrame

\* Lines 211-213: chain.invoke raises; nothing was added.
AskInvokeFail ==
    /\ qa.pc = "invoking"
    /\ qa' = [qa EXCEPT !.pc = "raised"]
    /\ UNCHANGED <<chat_history, sessions>>
    /\ QaFrame

\* QAChain.clear_history, lines 257-260, called for session s.
ClearHistory(s) ==
    /\ qa.pc = "idle"
    /\ chat_history # <<>>
    /\ chat_history' = <<>>
    /\ qa' = [IdleQa EXCEPT !.pc = "cleared", !.session = s]
    /\ UNCHANGED sessions
    /\ QaFrame

AskReturn ==
    /\ qa.pc \in {"returned", "raised", "cleared"}
    /\ qa' = IdleQa
    /\ UNCHANGED <<chat_history, sessions>>
    /\ QaFrame

\* TeamsBot.on_message_activity, lines 36-41: the first message of a user
\* opens the user's session.
BotMessage(s) ==
    /\ qa.pc = "idle"
    /\ s \notin DOMAIN sessions
    /\ sessions' = (s :> NewSession) @@ sessions
    /\ UNCHANGED <<chat_history, qa>>
    /\ QaFrame

\* TeamsBot._command_clear, lines 213-220: the user's session is reset; the
\* history of the QAChain is not touched.
CommandClear(s) ==
    /\ qa.pc = "idle"
    /\ s \in DOMAIN sessions
    /\ sessions' = [sessions EXCEPT ![s] = NewSession]
    /\ qa' = [IdleQa EXCEPT !.pc = "cleared", !.session = s]
    /\ UNCHANGED chat_history
    /\ QaFrame

InitSearchIdle ==
    /\ search = IdleSearch
    /\ chat_history = <<>>
    /\ qa = IdleQa
    /\ sessions = EmptyMap

NextChat ==
    \/ \E s \in Sessions, update_history \in BOOLEAN : AskRender(s, update_history)
    \/ \E answer \in Answers : AskInvokeOk(answer)
    \/ AskInvokeFail
    \/ \E s \in Sessions : ClearHistory(s)
    \/ AskReturn
    \/ \E s \in Sessions : BotMessage(s)
    \/ \E s \in Sessions : CommandClear(s)

---------------------------------------------------------------------------
(* SummarizationChain: summarize, _map_reduce_summarize, batch_summarize.  *)
(* A text is its length and the sections the splitter of                   *)
(* _map_reduce_summarize makes of it.                                      *)

MaxBatch == 2       \* longest list handed to batch_summarize
MaxSections == 2    \* most sections the splitter makes of a text

max_doc_length == 4000   \* self.max_doc_length, in tokens

CharsPerToken == 4       \* len(text) // 4

\* Lengths around the place where the estimate passes max_doc_length.
TextLengths == {max_doc_length * CharsPerToken,
                max_doc_length * CharsPerToken + CharsPerToken - 1,
                max_doc_length * CharsPerToken + CharsPerToken}

SummarizedTexts == [len : TextLengths, sections : 0..MaxSections]

SummaryLengths == {"brief", "standard"}

DocumentTypes == {"general", "technical"}

_estimate_tokens(text) == text.len \div CharsPerToken

\* summarize, line 73, with the comparison the other way round.
too_long_at_threshold(text) == _estimate_tokens(text) >= max_doc_length

\* summarize, line 73: the document is too long for a single pass.
too_long(text) == _estimate_tokens(text) > max_doc_length

\* RecursiveCharacterTextSplitter(3000, 200).split_text(text), lines 110-115.
map_reduce_sections(text) == text.sections

\* What is known of one run of summarize: the path, and the calls made.
NoRun == [text |-> [len |-> 0, sections |-> 0], method |-> "none",
          gen_calls |-> 0, map_calls |-> 0, reduce_calls |-> 0,
          num_chunks |-> 0, failed |-> FALSE]

IdleSum == [pc |-> "idle", op |-> "none", texts |-> <<>>, i |-> 0,
            length |-> "none", document_type |-> "none",
            run |-> NoRun, runs |-> <<>>, results |-> <<>>]

SumFrame == UNCHANGED <<evars, rvars, svars, dvars, qvars, xvars>>

\* The dictionary summarize returns, lines 86-91.
single_pass_result(text, length, document_type) ==
    ("summary" :> <<"summary of", text>>) @@ ("length" :> length)
       @@ ("document_type" :> document_type) @@ ("method" :> "single_pass")

\* The dictionary _map_reduce_summarize returns, lines 153-159.
map_reduce_result(text, num_chunks) ==
    ("summary" :> <<"summary of", text>>) @@ ("length" :> "standard")
       @@ ("document_type" :> "general") @@ ("method" :> "map_reduce")
       @@ ("num_chunks" :> num_chunks)

\* The dictionary batch_summarize records for a failure, lines 192-197.
error_result(e, length, document_type) ==
    ("summary" :> <<>>) @@ ("error" :> e) @@ ("length" :> length)
       @@ ("document_type" :> document_type)

\* summarize(text, length, document_type) is called.
SummarizeCall(text, length, document_type) ==
    /\ sum_call.pc = "idle"
    /\ sum_call' = [IdleSum EXCEPT !.pc = "deciding", !.op = "summarize",
                                   !.texts = <<text>>, !.i = 1,
                                   !.length = length,
                                   !.document_type = document_type]
    /\ SumFrame

\* batch_summarize(texts, length, document_type) is called, lines 182-183:
\* the loop starts, or ends at once for no text.
BatchCall(texts, length, document_type) ==
    /\ sum_call.pc = "idle"
    /\ sum_call' = [IdleSum EXCEPT !.pc = IF texts = <<>> THEN "returned" ELSE "deciding",
                                   !.op = "batch_summarize",
                                   !.texts = texts, !.i = 1,
                                   !.length = length,
                                   !.document_type = document_type]
    /\ SumFrame

\* summarize, lines 69-75; _map_reduce_summarize, lines 108-115.
Decide ==
    /\ sum_call.pc = "deciding"
    /\ LET text == sum_call.texts[sum_call.i]
       IN sum_call' =
             IF too_long(text)
             THEN [sum_call EXCEPT !.pc = "mapping",
                      !.run = [NoRun EXCEPT !.text = text, !.method = "map_reduce",
                                            !.num_chunks = map_reduce_sections(text)]]
             ELSE [sum_call EXCEPT !.pc = "single",
                      !.run = [NoRun EXCEPT !.text = text, !.method = "single_pass"]]
    /\ SumFrame

\* A run of summarize has returned result: summarize returns it;
\* batch_summarize appends it (lines 185-186) and goes on.
AfterSummarize(c, run, result) ==
    LET d == [c EXCEPT !.run = NoRun, !.runs = Append(@, run),
                       !.results = Append(@, result)]
    IN IF c.op = "batch_summarize" /\ c.i < Len(c.texts)
       THEN [d EXCEPT !.pc = "deciding", !.i = @ + 1]
       ELSE [d EXCEPT !.pc = "returned"]

\* batch_summarize, with a failure ending the batch.
AfterSummarizeFailureAborting(c, run, e) ==
    [c EXCEPT !.pc = "raised", !.run = NoRun, !.runs = Append(@, run)]

\* A run of summarize has raised e (lines 94-96, 161-163): summarize
\* raises; batch_summarize records the error (lines 187-194) and goes on.
AfterSummarizeFailure(c, run, e) ==
    IF c.op = "batch_summarize"
    THEN AfterSummarize(c, run, error_result(e, c.length, c.document_type))
    ELSE [c EXCEPT !.pc = "raised", !.run = NoRun, !.runs = Append(@, run)]

\* summarize, lines 77-91: one chain.invoke.
SinglePassOk ==
    /\ sum_call.pc = "single"
    /\ LET run == [sum_call.run EXCEPT !.gen_calls = @ + 1]
       IN sum_call' = AfterSummarize(sum_call, run,
                         single_pass_result(run.text, sum_call.length,
                                            sum_call.document_type))
    /\ SumFrame

SinglePassFail ==
    /\ sum_call.pc = "single"
    /\ LET run == [sum_call.run EXCEPT !.gen_calls = @ + 1, !.failed = TRUE]
       IN sum_call' = AfterSummarizeFailure(sum_call, run, "GenerationError")
    /\ SumFrame

\* MapReduceDocumentsChain: the map chain summarizes one more section.
MapOk ==
    /\ sum_call.pc = "mapping"
    /\ sum_call.run.map_calls < sum_call.run.num_chunks
    /\ sum_call' = [sum_call EXCEPT !.run.map_calls = @ + 1]
    /\ SumFrame

MapFail ==
    /\ sum_call.pc = "mapping"
    /\ sum_call.run.map_calls < sum_call.run.num_chunks
    /\ LET run == [sum_call.run EXCEPT !.map_calls = @ + 1, !.failed = TRUE]
       IN sum_call' = AfterSummarizeFailure(sum_call, run, "GenerationError")
    /\ SumFrame

\* MapReduceDocumentsChain: every section is summarized, the reduce chain
\* combines the summaries; lines 148-159.
ReduceOk ==
    /\ sum_call.pc = "mapping"
    /\ sum_call.run.map_calls = sum_call.run.num_chunks
    /\ LET run == [sum_call.run EXCEPT !.reduce_calls = @ + 1]
       IN sum_call' = AfterSummarize(sum_call, run,
                         map_reduce_result(run.text, run.num_chunks))
    /\ SumFrame

ReduceFail ==
    /\ sum_call.pc = "mapping"
    /\ sum_call.run.map_calls = sum_call.run.num_chunks
    /\ LET run == [sum_call.run EXCEPT !.reduce_calls = @ + 1, !.failed = TRUE]
       IN sum_call' = AfterSummarizeFailure(sum_call, run, "GenerationError")
    /\ SumFrame

SumReturn ==
    /\ sum_call.pc \in {"returned", "raised"}
    /\ sum_call' = IdleSum
    /\ SumFrame

InitSumIdle ==
    /\ sum_call = IdleSum

\* The calls are made when no call is running; the inputs are drawn then.
NextSum ==
    \/ /\ sum_call.pc = "idle"
       /\ \E text \in SummarizedTexts, length \in SummaryLengths,
             document_type \in DocumentTypes :
             SummarizeCall(text, length, document_type)
    \/ /\ sum_call.pc = "idle"
       /\ \E texts \in SeqsUpTo(SummarizedTexts, MaxBatch), length \in SummaryLengths,
             document_type \in DocumentTypes :
             BatchCall(texts, length, document_type)
    \/ Decide
    \/ SinglePassOk
    \/ SinglePassFail
    \/ MapOk
    \/ MapFail
    \/ ReduceOk
    \/ ReduceFail
    \/ SumReturn

---------------------------------------------------------------------------
(* SummarizationService: the batch summarization jobs.                     *)

MaxJobDocs == 2    \* most documents of one job

JobIds == {"j1", "j2"}

\* The job batch_summarize records, lines 112-119.
NewJob(document_ids, length) ==
    [status |-> "pending", document_ids |-> document_ids, length |-> length,
     total |-> Len(document_ids), completed |-> 0, results |-> <<>>]

JobsFrame ==
    UNCHANGED <<evars, rvars, svars, dvars, qvars, mvars, ups, removal, loader,
                adaptive_call>>

\* SummarizationService.batch_summarize, lines 109-125: the job is recorded
\* under a fresh id, and the id is returned; no processing is started.
BatchJobCreate(job_id, document_ids, length) ==
    /\ job_id \notin DOMAIN jobs
    /\ jobs' = (job_id :> NewJob(document_ids, length)) @@ jobs
    /\ JobsFrame

\* SummarizationService.get_job_status, lines 132-136: the job is read.
GetJobStatus(job_id) ==
    /\ job_id \in DOMAIN jobs
    /\ UNCHANGED jobs
    /\ JobsFrame

NextJobs ==
    \/ \E job_id \in JobIds, document_ids \in SeqsUpTo(DocIds, MaxJobDocs),
          length \in SummaryLengths :
          BatchJobCreate(job_id, document_ids, length)
    \/ \E job_id \in JobIds : GetJobStatus(job_id)

---------------------------------------------------------------------------
(* PineconeService.upsert in sub-batches, DocumentService.delete_document, *)
(* and the failures of upload_and_process_document.                        *)

MaxUpsertBatch == 2          \* largest batch_size handed to upsert

DefaultUpsertBatchSize == 100   \* batch_size: int = 100

IdleUps == [pc |-> "idle", vectors |-> <<>>, batch_size |-> 0, i |-> 0,
            total_upserted |-> 0, has_count |-> FALSE, upserted_count |-> 0]

IdleRemoval == [pc |-> "idle", document_id |-> "none", result |-> FALSE,
                index_before |-> EmptyMap, db_before |-> EmptyMap]

\* ---------------------------------------------------------------------
\* AdaptiveTextSplitter.split_documents on the pages of a document
\* (src/app/core/text_splitter.py, lines 183-221).

MaxAdaptiveDocs == 2

IndentedLine == <<"\n", " ", " ", " ", " ", "a">>

\* n indented lines, each a newline, four spaces and a letter.
IndentedLines(n) == Concat([k \in 1..n |-> IndentedLine])

\* The page texts around the thresholds of _detect_content_type: nothing,
\* two backticks, a code fence, ten and eleven pipes, five and six indented
\* lines, six indented lines of which the first opens the text, and a code
\* fence or six indented lines together with eleven pipes.
ClassTexts ==
    {<<>>,
     Repeat(Backtick, 2),
     Repeat(Backtick, 3) \o <<"a">>,
     Repeat(Pipe, 10),
     Repeat(Pipe, 11),
     IndentedLines(5),
     IndentedLines(6),
     Tail(IndentedLines(6)),
     Repeat(Pipe, 11) \o Repeat(Backtick, 3),
     Repeat(Pipe, 11) \o IndentedLines(6)}

\* The documents of a call: page k has the metadata the loader gave it.
Pages(texts) ==
    [k \in 1..Len(texts) |-> Doc(texts[k], With("source" :> "tmp", "page", k))]

IdleAdaptive == [pc |-> "idle", documents |-> <<>>, chunks |-> <<>>]

AdaptiveFrame ==
    UNCHANGED <<evars, rvars, svars, dvars, qvars, mvars, jobs, ups, removal, loader>>

\* AdaptiveTextSplitter.split_documents(documents) is called.
AdaptiveCall(texts) ==
    /\ adaptive_call.pc = "idle"
    /\ adaptive_call' = [IdleAdaptive EXCEPT !.pc = "called", !.documents = Pages(texts)]
    /\ AdaptiveFrame

\* Lines 187-209: the chunks of every document, tagged.
AdaptiveSplitDocuments(size, overlap) ==
    /\ adaptive_call.pc = "called"
    /\ adaptive_call' = [adaptive_call EXCEPT !.pc = "returned",
                            !.chunks = adaptive_split_documents(adaptive_call.documents,
                                                                size, overlap)]
    /\ AdaptiveFrame

\* The caller has the chunks.
AdaptiveReturn ==
    /\ adaptive_call.pc = "returned"
    /\ adaptive_call' = IdleAdaptive
    /\ AdaptiveFrame

NextAdaptive ==
    \/ adaptive_call.pc = "idle" /\ \E texts \in SeqsUpTo(ClassTexts, MaxAdaptiveDocs) :
           AdaptiveCall(texts)
    \/ \E size \in {2, MaxChunkSize}, overlap \in {0, 1} : AdaptiveSplitDocuments(size, overlap)
    \/ AdaptiveReturn

\* ---------------------------------------------------------------------
\* DocumentLoader (src/app/core/document_loader.py).
\* A file name is the sequence of its dot-separated parts: "a.tar.pdf" is
\* <<"a", "tar", "pdf">>.  An extension is written without its dot.

supported_formats == {"pdf", "docx", "txt", "md"}

\* str.lower on the parts that occur.
lower(part) ==
    CASE part = "PDF" -> "pdf"
      [] part = "TXT" -> "txt"
      [] OTHER -> part

\* Path.suffix: the text after the last dot of the name, nothing when the
\* name has no dot.
suffix(name) == IF Len(name) >= 2 THEN name[Len(name)] ELSE ""

\* load, lines 35-41: the error of the two checks, "none" when both pass.
load_check(path) ==
    IF ~path.exists THEN "FileNotFoundError"
    ELSE IF lower(suffix(path.name)) \notin supported_formats THEN "ValueError"
    ELSE "none"

\* load, lines 44-52: the loader of an extension.
loader_of(extension) ==
    CASE extension = "pdf" -> "_load_pdf"
      [] extension = "docx" -> "_load_docx"
      [] extension \in {"txt", "md"} -> "_load_text"
      [] OTHER -> "_load_unstructured"

\* What a loader makes of the content of a file it can read.
loaded(file, name) ==
    IF name = "_load_pdf" THEN load_pdf(file.pages) ELSE load_text(file.pages[1])

\* A loader reads the files of its own format; on others it raises.
readable(file, name) ==
    \/ name = "_load_pdf" /\ file.file_type = "pdf"
    \/ name = "_load_text" /\ file.file_type = "txt"

\* load_from_bytes, lines 214-215: every document gets the file name.
with_original_filename(documents) ==
    [k \in 1..Len(documents) |->
        Doc(documents[k].page_content,
            With(documents[k].metadata, "original_filename", "f"))]

\* tempfile.NamedTemporaryFile(suffix=f'.{file_type}'): a fresh name that
\* ends with a dot and the declared type.
temp_name(file_type) == <<"tmp">> \o file_type

\* The declared types of load_from_bytes, split at their dots.
DeclaredTypes ==
    {<<"pdf">>, <<"txt">>, <<"docx">>, <<"xyz">>, <<"PDF">>, <<"tar", "pdf">>}

PathNames == {<<"a", "pdf">>, <<"a", "txt">>, <<"a", "md">>, <<"a", "xyz">>, <<"a">>}

Paths == [exists : BOOLEAN, name : PathNames, content : Files]

NoPath == [exists |-> FALSE, name |-> <<>>,
           content |-> [file_type |-> "txt", pages |-> << <<>> >>]]

\* One call of the loader.  tmp_exists is the temporary file on disk.
IdleLoader ==
    [pc |-> "idle", op |-> "none", path |-> NoPath, file_type |-> <<>>,
     tmp_exists |-> FALSE, invoked |-> "none", error |-> "none",
     documents |-> <<>>]

LoaderFrame ==
    UNCHANGED <<evars, rvars, svars, dvars, qvars, mvars, jobs, ups, removal,
                adaptive_call>>

\* load(file_path) is called.
LoadCall(path) ==
    /\ loader.pc = "idle"
    /\ loader' = [IdleLoader EXCEPT !.pc = "checking", !.op = "load", !.path = path]
    /\ LoaderFrame

\* load_from_bytes(file_bytes, filename, file_type) is called.
LoadFromBytesCall(file, file_type) ==
    /\ loader.pc = "idle"
    /\ loader' = [IdleLoader EXCEPT !.pc = "creating", !.op = "load_from_bytes",
                     !.path = [exists |-> FALSE, name |-> temp_name(file_type),
                               content |-> file],
                     !.file_type = file_type]
    /\ LoaderFrame

\* load_from_bytes, lines 202-205: the temporary file is created
\* (delete=False).
TempCreateOk ==
    /\ loader.pc = "creating"
    /\ loader' = [loader EXCEPT !.pc = "writing", !.tmp_exists = TRUE]
    /\ LoaderFrame

\* The temporary file cannot be created: the call raises.
TempCreateFail ==
    /\ loader.pc = "creating"
    /\ loader' = [loader EXCEPT !.pc = "raised", !.error = "OSError"]
    /\ LoaderFrame

\* Lines 206-207: the bytes are written and the file is closed.
TempWriteOk ==
    /\ loader.pc = "writing"
    /\ loader' = [loader EXCEPT !.pc = "checking", !.path.exists = TRUE]
    /\ LoaderFrame

\* Line 206 raises: the with block closes the file, which was opened with
\* delete=False, and the try/finally of line 209 is never entered.
TempWriteFail ==
    /\ loader.pc = "writing"
    /\ loader' = [loader EXCEPT !.pc = "raised", !.error = "OSError"]
    /\ LoaderFrame

\* Where a call goes when load has ended: load_from_bytes runs its finally.
AfterLoad(outcome) == IF loader.op = "load_from_bytes" THEN "finally_" \o outcome ELSE outcome

\* load, lines 35-41: a check fails and load raises.
LoadCheckFail ==
    /\ loader.pc = "checking"
    /\ load_check(loader.path) # "none"
    /\ loader' = [loader EXCEPT !.pc = AfterLoad("raised"),
                                !.error = load_check(loader.path)]
    /\ LoaderFrame

\* load, lines 43-52: both checks pass and the loader of the extension
\* starts.
LoadDispatch ==
    /\ loader.pc = "checking"
    /\ load_check(loader.path) = "none"
    /\ loader' = [loader EXCEPT !.pc = "loading",
                     !.invoked = loader_of(lower(suffix(loader.path.name)))]
    /\ LoaderFrame

\* The loader returns its documents.
LoadOk ==
    /\ loader.pc = "loading"
    /\ readable(loader.path.content, loader.invoked)
    /\ loader' = [loader EXCEPT !.pc = AfterLoad("returned"),
                     !.documents =
                         IF loader.op = "load_from_bytes"
                         THEN with_original_filename(loaded(loader.path.content, loader.invoked))
                         ELSE loaded(loader.path.content, loader.invoked)]
    /\ LoaderFrame

\* The loader raises (lines 53-55 log and raise again).
LoadFail ==
    /\ loader.pc = "loading"
    /\ loader' = [loader EXCEPT !.pc = AfterLoad("raised"), !.error = "ParseError"]
    /\ LoaderFrame

\* load_from_bytes, lines 219-221: the finally clause unlinks the file.
TempUnlink ==
    /\ loader.pc \in {"finally_returned", "finally_raised"}
    /\ loader' = [loader EXCEPT !.tmp_exists = FALSE,
                     !.pc = IF loader.pc = "finally_returned" THEN "returned" ELSE "raised"]
    /\ LoaderFrame

\* The caller has the outcome; the loader is free for the next call.
LoaderReturn ==
    /\ loader.pc \in {"returned", "raised"}
    /\ loader' = IdleLoader
    /\ LoaderFrame

NextLoader ==
    \/ loader.pc = "idle" /\ \E path \in Paths : LoadCall(path)
    \/ loader.pc = "idle" /\ \E file \in Files, file_type \in DeclaredTypes :
           LoadFromBytesCall(file, file_type)
    \/ TempCreateOk
    \/ TempCreateFail
    \/ TempWriteOk
    \/ TempWriteFail
    \/ LoadCheckFail
    \/ LoadDispatch
    \/ LoadOk
    \/ LoadFail
    \/ TempUnlink
    \/ LoaderReturn


\* One call runs at a time: the methods are entered from the event loop and
\* await nothing before they end.
NoCallRunning == upload.pc = "idle" /\ ups.pc = "idle" /\ removal.pc = "idle"

StoreFrame ==
    UNCHANGED <<evars, rvars, svars, qvars, mvars, jobs, loader, adaptive_call>>

\* vectors[i:i + batch_size], i counted from 0.
Slice(vectors, i, size) ==
    SubSeq(vectors, i + 1, Min(i + size, Len(vectors)))

\* PineconeService.upsert(vectors, batch_size=...) is called, lines 106-109.
UpsertCall(vectors, size) ==
    /\ NoCallRunning
    /\ ups' = [IdleUps EXCEPT !.pc = "writing", !.vectors = vectors,
                              !.batch_size = size]
    /\ UNCHANGED <<documents_db, index, upload, removal>>
    /\ StoreFrame

\* Lines 110-116: the next sub-batch is written and counted.
UpsertBatchOk ==
    /\ ups.pc = "writing"
    /\ ups.i < Len(ups.vectors)
    /\ LET batch == Slice(ups.vectors, ups.i, ups.batch_size)
       IN /\ index' = upsert(index, batch)
          /\ ups' = [ups EXCEPT !.i = @ + ups.batch_size,
                                !.total_upserted = @ + Len(batch)]
    /\ UNCHANGED <<documents_db, upload, removal>>
    /\ StoreFrame

\* Lines 128-130: index.upsert raises on the next sub-batch; the exception
\* is logged and raised again.
UpsertBatchFail ==
    /\ ups.pc = "writing"
    /\ ups.i < Len(ups.vectors)
    /\ ups' = [ups EXCEPT !.pc = "raised"]
    /\ UNCHANGED <<documents_db, index, upload, removal>>
    /\ StoreFrame

\* Lines 118-126: every sub-batch is written, the count is returned.
UpsertFinish ==
    /\ ups.pc = "writing"
    /\ ups.i >= Len(ups.vectors)
    /\ ups' = [ups EXCEPT !.pc = "returned", !.has_count = TRUE,
                          !.upserted_count = ups.total_upserted]
    /\ UNCHANGED <<documents_db, index, upload, removal>>
    /\ StoreFrame

UpsertReturn ==
    /\ ups.pc \in {"returned", "raised"}
    /\ ups' = IdleUps
    /\ UNCHANGED <<documents_db, index, upload, removal>>
    /\ StoreFrame

\* PineconeService.delete with every vector of the index removed.
pinecone_delete_everything(idx, ids, delete_all, filter) == EmptyMap

\* PineconeService.delete, lines 192-201: everything, or the ids, or the
\* entries the filter matches.
pinecone_delete(idx, ids, delete_all, filter) ==
    IF delete_all THEN EmptyMap
    ELSE IF ids # {} THEN [id \in DOMAIN idx \ ids |-> idx[id]]
    ELSE IF filter # NoFilter
         THEN [id \in DOMAIN idx \ Matches(idx, filter) |-> idx[id]]
    ELSE idx

\* del self.documents_db[document_id]
Without(db, document_id) == [d \in DOMAIN db \ {document_id} |-> db[d]]

\* delete_document(document_id) is called, lines 118-120: an unknown
\* document gives False.
DeleteCall(document_id) ==
    /\ NoCallRunning
    /\ removal' = [IdleRemoval EXCEPT
                      !.pc = IF document_id \in DOMAIN documents_db
                             THEN "deleting" ELSE "returned",
                      !.document_id = document_id,
                      !.index_before = index, !.db_before = documents_db]
    /\ UNCHANGED <<documents_db, index, upload, ups>>
    /\ StoreFrame

\* Lines 122-131: the entries of the document are deleted by metadata
\* filter, then the registry entry.
DeleteOk ==
    /\ removal.pc = "deleting"
    /\ index' = pinecone_delete(index, {}, FALSE, DocumentFilter(removal.document_id))
    /\ documents_db' = Without(documents_db, removal.document_id)
    /\ removal' = [removal EXCEPT !.pc = "returned", !.result = TRUE]
    /\ UNCHANGED <<upload, ups>>
    /\ StoreFrame

\* Lines 133-135: PineconeService.delete raises.
DeleteFail ==
    /\ removal.pc = "deleting"
    /\ removal' = [removal EXCEPT !.pc = "raised"]
    /\ UNCHANGED <<documents_db, index, upload, ups>>
    /\ StoreFrame

DeleteReturn ==
    /\ removal.pc \in {"returned", "raised"}
    /\ removal' = IdleRemoval
    /\ UNCHANGED <<documents_db, index, upload, ups>>
    /\ StoreFrame

\* upload_and_process_document, lines 98-102, with the status left as it is.
upload_failed_keeping_status(db, document_id) == db

\* upload_and_process_document, lines 98-102: the status of the entry is
\* failed.
upload_failed(db, document_id) ==
    IF document_id \in DOMAIN db
    THEN [db EXCEPT ![document_id].status = "failed"]
    ELSE db

\* Loading, splitting or embedding raises.
UploadFail ==
    /\ upload.pc \in {"loading", "splitting", "embedding"}
    /\ documents_db' = upload_failed(documents_db, upload.document_id)
    /\ upload' = [upload EXCEPT !.pc = "raised"]
    /\ UNCHANGED index
    /\ IngestFrame

\* PineconeService.upsert raises on sub-batch k + 1 of the vectors, the k
\* sub-batches before it written.
UploadStoreFail(k) ==
    /\ upload.pc = "embedding"
    /\ LET vectors == embed_documents(upload.chunks)
       IN /\ k * DefaultUpsertBatchSize < Len(vectors)
          /\ index' = upsert(index, Slice(vectors, 0, k * DefaultUpsertBatchSize))
    /\ documents_db' = upload_failed(documents_db, upload.document_id)
    /\ upload' = [upload EXCEPT !.pc = "raised"]
    /\ IngestFrame

\* The exception reaches the caller.
UploadRaise ==
    /\ upload.pc = "raised"
    /\ upload' = IdleUpload
    /\ UNCHANGED <<documents_db, index>>
    /\ IngestFrame

\* The ids delete_document is asked about: document ids, one never uploaded.
DeletedIds == DocIds \cup {"d0"}

\* The vectors handed to upsert: those of a document as ingestion makes
\* them.
UpsertedVectors ==
    {IngestedVectors(d, file, MaxChunkSize, 0) : d \in DocIds, file \in IndexedFiles}

NextStore ==
    \/ \E vectors \in UpsertedVectors, size \in 1..MaxUpsertBatch :
          UpsertCall(vectors, size)
    \/ UpsertBatchOk
    \/ UpsertBatchFail
    \/ UpsertFinish
    \/ UpsertReturn
    \/ \E document_id \in DeletedIds : DeleteCall(document_id)
    \/ DeleteOk
    \/ DeleteFail
    \/ DeleteReturn

NextUpload ==
    \/ \E d \in DocIds, file \in IndexedFiles : UploadStart(d, file)
    \/ UploadLoad
    \/ UploadSplit
    \/ UploadTag
    \/ UploadStore
    \/ UploadReturn
    \/ UploadFail
    \/ \E k \in 0..MaxUpsertBatch : UploadStoreFail(k)
    \/ UploadRaise

InitOthersIdle ==
    /\ jobs = EmptyMap
    /\ ups = IdleUps
    /\ removal = IdleRemoval
    /\ loader = IdleLoader
    /\ adaptive_call = IdleAdaptive

InitSpecEmbed ==
    /\ InitEmbed
    /\ InitClientIdle
    /\ InitSplitIdle
    /\ InitIngestIdle
    /\ InitSearchIdle
    /\ InitSumIdle
    /\ InitOthersIdle

InitSpecRetry ==
    /\ InitEmbedIdle
    /\ InitClientIdle
    /\ InitSplitIdle
    /\ InitIngestIdle
    /\ InitSearchIdle
    /\ InitSumIdle
    /\ InitOthersIdle

InitSpecSplit ==
    /\ InitEmbedIdle
    /\ InitClientIdle
    /\ InitSplit
    /\ InitIngestIdle
    /\ InitSearchIdle
    /\ InitSumIdle
    /\ InitOthersIdle

SpecEmbed == InitSpecEmbed /\ [][NextEmbed]_vars

InitSpecCache ==
    /\ InitCache
    /\ InitClientIdle
    /\ InitSplitIdle
    /\ InitIngestIdle
    /\ InitSearchIdle
    /\ InitSumIdle
    /\ InitOthersIdle

SpecCache == InitSpecCache /\ [][NextCache]_vars

SpecRetry == InitSpecRetry /\ [][NextRetry]_vars

SpecSplit == InitSpecSplit /\ [][NextSplit]_vars

InitSpecIngest ==
    /\ InitEmbedIdle
    /\ InitClientIdle
    /\ InitIngestSplitter
    /\ InitIngestIdle
    /\ InitSearchIdle
    /\ InitSumIdle
    /\ InitOthersIdle

SpecIngest == InitSpecIngest /\ [][NextIngest]_vars

InitSpecSearch ==
    /\ InitEmbedIdle
    /\ InitClientIdle
    /\ InitSplitIdle
    /\ InitSearchIndex
    /\ InitSearchIdle
    /\ InitSumIdle
    /\ InitOthersIdle

SpecSearch == InitSpecSearch /\ [][NextSearch]_vars

InitSpecChat ==
    /\ InitEmbedIdle
    /\ InitClientIdle
    /\ InitSplitIdle
    /\ InitIngestIdle
    /\ InitSearchIdle
    /\ InitSumIdle
    /\ InitOthersIdle

SpecChat == InitSpecChat /\ [][NextChat]_vars

InitSpecSum ==
    /\ InitEmbedIdle
    /\ InitClientIdle
    /\ InitSplitIdle
    /\ InitIngestIdle
    /\ InitSearchIdle
    /\ InitSumIdle
    /\ InitOthersIdle

SpecSum == InitSpecSum /\ [][NextSum]_vars

InitSpecJobs ==
    /\ InitEmbedIdle
    /\ InitClientIdle
    /\ InitSplitIdle
    /\ InitIngestIdle
    /\ InitSearchIdle
    /\ InitSumIdle
    /\ InitOthersIdle

InitSpecStore ==
    /\ InitEmbedIdle
    /\ InitClientIdle
    /\ InitSplitIdle
    /\ InitSearchIndex
    /\ InitSearchIdle
    /\ InitSumIdle
    /\ InitOthersIdle

SpecStore == InitSpecStore /\ [][NextStore]_vars

InitSpecUpload ==
    /\ InitEmbedIdle
    /\ InitClientIdle
    /\ InitIngestSplitter
    /\ InitIngestIdle
    /\ InitSearchIdle
    /\ InitSumIdle
    /\ InitOthersIdle

SpecUpload == InitSpecUpload /\ [][NextUpload]_vars

InitSpecAdaptive ==
    /\ InitEmbedIdle
    /\ InitClientIdle
    /\ InitSplitIdle
    /\ InitIngestIdle
    /\ InitSearchIdle
    /\ InitSumIdle
    /\ InitOthersIdle

SpecAdaptive == InitSpecAdaptive /\ [][NextAdaptive]_vars

InitSpecLoader ==
    /\ InitEmbedIdle
    /\ InitClientIdle
    /\ InitSplitIdle
    /\ InitIngestIdle
    /\ InitSearchIdle
    /\ InitSumIdle
    /\ InitOthersIdle

SpecLoader == InitSpecLoader /\ [][NextLoader]_vars

\* Every step that can be taken is taken in the end: a worker, if there is
\* one, is not starved.
SpecJobs == InitSpecJobs /\ [][NextJobs]_vars /\ WF_vars(NextJobs)

\* The calls that create embeddings through the wrapper.
EmbeddingOps == {"create_embeddings", "async_create_embeddings"}

\* C5: a transient backend error is surfaced by an embedding call only after
\* the call was retried up to the attempt bound, and no call makes more than
\* StopAfterAttempt attempts.
C5_EmbeddingCallsRetryBounded ==
    /\ call.attempt_number <= StopAfterAttempt
    /\ (call.pc = "raised" /\ call.op \in EmbeddingOps
            /\ call.cause \in TransientErrors)
          => call.attempt_number = StopAfterAttempt

\* A call of a method with the @retry decorator has ended with an error that
\* is not a rate-limit, connection or timeout error, at the attempt that
\* raised it (the only attempt, unless transient errors were retried before
\* it), and the error itself reached the caller.
NonTransientFailure ==
    /\ call.pc = "raised"
    /\ Decorated(call.op)
    /\ call.cause \notin TransientErrors

FailedWithoutRetry ==
    /\ call.attempt_number = call.transient_seen + 1
    /\ call.surfaced = call.cause

\* C6 as stated: in chat_completion, async_chat_completion and
\* create_embeddings a non-transient error ends the call without another
\* attempt, the error itself propagates, and the usage statistics are those at
\* the start of the call.
C6_NonTransientFailsStatsUnchanged ==
    NonTransientFailure
       => /\ FailedWithoutRetry
          /\ total_tokens_used = call.tokens0
          /\ total_cost = call.cost0

\* C6 as amended: a non-transient error ends the call without another
\* attempt and propagates; the usage statistics are those at the start of the
\* call when the backend call raised it, and count the usage of the response
\* when the method raised it while reading the response.
C6_NonTransientFailsImmediately ==
    NonTransientFailure
       => /\ FailedWithoutRetry
          /\ total_tokens_used = call.tokens0 + call.read.total_tokens
          /\ total_cost = call.cost0 +
                 calculate_cost(DefaultModel(call.op), call.read.prompt_tokens,
                                call.read.completion_tokens)
          /\ call.cause # "IndexError" => call.read = NoUsage

\* C6 witness: chat_completion raised a rejected-request error on its first
\* attempt, after an earlier call had updated the usage statistics.
C6_Witness ==
    /\ call.pc = "raised"
    /\ call.op = "chat_completion"
    /\ call.cause = "BadRequestError"
    /\ call.attempt_number = 1
    /\ total_tokens_used > 0

---------------------------------------------------------------------------
(* Claims about the text splitter, checked under SpecSplit.                *)

SplitDone == split_pc = "split" /\ ~adaptive

\* C7 as stated: a text shorter than chunk_size comes back as one chunk equal
\* to the text, nothing trimmed.
C7_ShortTextOneChunkEqualInput ==
    (SplitDone /\ Len(doc_text) < chunk_size) => chunks = <<doc_text>>

\* C7 as amended: a text shorter than chunk_size comes back as one chunk, the
\* text without its leading and trailing whitespace, and as no chunk when
\* nothing is left of it (the empty text, whitespace only).
C7_ShortTextOneStrippedChunk ==
    (SplitDone /\ Len(doc_text) < chunk_size)
       => chunks = IF Strip(doc_text) = <<>> THEN <<>> ELSE <<Strip(doc_text)>>

\* C7 witness: a two-character text that starts with whitespace was split
\* with a larger chunk_size into one chunk.
C7_Witness ==
    /\ SplitDone
    /\ Len(doc_text) = 2
    /\ Len(doc_text) < chunk_size
    /\ doc_text[1] \in Whitespace
    /\ Len(chunks) = 1

\* The chunks cs[k..] lie in the text t in order, each starting at or after
\* the start of the one before (from) and at most one position past the part
\* covered so far (done): overlapping or adjacent.  With gaps, whitespace
\* may lie uncovered between two chunks and around them.
RECURSIVE PlacedFrom(_, _, _, _, _, _)
PlacedFrom(cs, t, k, from, done, gaps) ==
    IF k > Len(cs)
    THEN \A q \in (done + 1)..Len(t) : gaps /\ t[q] \in Whitespace
    ELSE \E p \in from..(Len(t) - Len(cs[k]) + 1) :
            /\ IsAt(t, cs[k], p)
            /\ \A q \in (done + 1)..(p - 1) : gaps /\ t[q] \in Whitespace
            /\ PlacedFrom(cs, t, k + 1, p, Max(done, p + Len(cs[k]) - 1), gaps)

\* The chunks, glued at some overlap of each with the next, are the text.
Reconstructs(cs, t) == PlacedFrom(cs, t, 1, 1, 0, FALSE)

\* The same, but for whitespace of the text left out at chunk boundaries.
ReconstructsButWhitespace(cs, t) == PlacedFrom(cs, t, 1, 1, 0, TRUE)

\* C8 as stated: the chunks of split_text, in order and with the overlaps of
\* consecutive chunks removed, are exactly the text.
C8_RoundTripExact == SplitDone => Reconstructs(chunks, doc_text)

\* C8 as amended: the chunks of split_text are pieces of the text in text
\* order, consecutive ones overlapping or adjacent, and every character of the
\* text outside all chunks is whitespace at a chunk boundary; nothing else is
\* lost and nothing is reordered.
C8_RoundTripButBoundaryWhitespace ==
    SplitDone => ReconstructsButWhitespace(chunks, doc_text)

\* C8 witness: a text was split into several chunks with an overlap, and
\* whitespace of the text at a chunk boundary is in no chunk.
C8_Witness ==
    /\ SplitDone
    /\ Len(chunks) > 1
    /\ chunk_overlap > 0
    /\ ~Reconstructs(chunks, doc_text)
    /\ ReconstructsButWhitespace(chunks, doc_text)

\* C9: every chunk the splitter produces, with the default separators and
\* with the code and table profiles, is at most chunk_size long.
C9_ChunksWithinChunkSize ==
    split_pc = "split" => \A k \in 1..Len(chunks) : Len(chunks[k]) <= chunk_size

LastChars(s, n) == SubSeq(s, Len(s) - n + 1, Len(s))

FirstChars(s, n) == SubSeq(s, 1, n)

\* The last chunk_overlap characters of every chunk are the first
\* chunk_overlap characters of the next.
AdjacentChunksShareOverlap ==
    \A k \in 1..(Len(chunks) - 1) :
        /\ Len(chunks[k]) >= chunk_overlap
        /\ Len(chunks[k + 1]) >= chunk_overlap
        /\ LastChars(chunks[k], chunk_overlap) = FirstChars(chunks[k + 1], chunk_overlap)

CharacterBased(t) == \A k \in 1..Len(t) : t[k] \notin Whitespace

---------------------------------------------------------------------------
(* Claims about ingestion, checked under SpecIngest.                       *)

\* The chunks of the upload in progress are made.
UploadIsSplit == upload.pc \in {"tagging", "embedding", "done"}

\* C11: split_text of the empty text returns no chunk, and split_documents
\* of documents with empty content returns no chunk; neither raises.
C11_EmptyTextNoChunks ==
    /\ (split_pc = "split" /\ ~adaptive /\ doc_text = <<>>) => chunks = <<>>
    /\ (UploadIsSplit
           /\ \A k \in 1..Len(upload.documents) :
                  upload.documents[k].page_content = <<>>)
          => upload.chunks = <<>>

\* C11 witness: split_text was called on the empty text, and the document
\* loaded from an empty text file went through split_documents.
C11_Witness ==
    /\ split_pc = "split"
    /\ ~adaptive
    /\ doc_text = <<>>
    /\ upload.pc = "tagging"
    /\ Len(upload.documents) = 1
    /\ upload.documents[1].page_content = <<>>

\* C12: once the chunks of an uploaded document are tagged, the metadata of
\* every chunk holds the document id, the metadata of the loaded document it
\* comes from, and a chunk index that counts the chunks from 0 in order; with
\* the default and with the adaptive splitter.
C12_ChunksCarryDocumentIdAndIndex ==
    upload.pc \in {"embedding", "done"}
       => \A k \in 1..Len(upload.chunks) :
             LET md == upload.chunks[k].metadata
             IN /\ "document_id" \in DOMAIN md
                /\ md["document_id"] = upload.document_id
                /\ \E j \in 1..Len(upload.documents) :
                       \A key \in DOMAIN upload.documents[j].metadata :
                          /\ key \in DOMAIN md
                          /\ md[key] = upload.documents[j].metadata[key]
                /\ "chunk_id" \in DOMAIN md
                /\ md["chunk_id"] = k - 1

---------------------------------------------------------------------------
(* SearchService claims                                                    *)

SearchEnded == search.pc \in {"returned", "raised"}

\* Every source the caller has got belongs to document d.
SourcesBelongTo(d) ==
    \A k \in 1..Len(search.sources) :
       /\ "document_id" \in DOMAIN search.sources[k].metadata
       /\ search.sources[k].metadata["document_id"] = d

\* C13: a query issued with a metadata filter restricting to document D,
\* through search or through search_with_answer, returns only sources of
\* D, and the caller's filter is the filter of the index query: the entry
\* point accepts it and the query that is made carries it.
C13_FilterReachesIndexQuery ==
    \A d \in DocIds :
       (/\ SearchEnded
        /\ search.op \in {"search", "search_with_answer"}
        /\ search.wanted_filter = DocumentFilter(d))
       => /\ search.error # "TypeError"
          /\ search.queried => search.filter = DocumentFilter(d)
          /\ search.has_sources => SourcesBelongTo(d)

\* The same for search alone, where it holds.
SearchFilterReachesIndexQuery ==
    \A d \in DocIds :
       (/\ SearchEnded
        /\ search.op = "search"
        /\ search.wanted_filter = DocumentFilter(d))
       => /\ search.error # "TypeError"
          /\ search.queried => search.filter = DocumentFilter(d)
          /\ search.has_sources => SourcesBelongTo(d)

\* The document a stored vector belongs to.
DocumentOf(id) == id[1]

Indexed(d) == \E id \in DOMAIN index : index[id].metadata["document_id"] = d

\* C14: for every indexed document D and every top_k,
\* find_similar_documents(D, top_k) returns, with at most top_k results,
\* none of them a vector of D.
C14_SimilarExcludesSource ==
    \A d \in DocIds :
       (/\ SearchEnded
        /\ search.op = "find_similar_documents"
        /\ search.document_id = BareId(d)
        /\ Indexed(d)
        /\ search.error # "IndexQueryError")
       => /\ search.pc = "returned"
          /\ Len(search.sources) <= search.top_k
          /\ \A k \in 1..Len(search.sources) :
                /\ search.sources[k].document_id # BareId(d)
                /\ search.sources[k].metadata["document_id"] # d

\* Asked about the id of a stored vector, find_similar_documents leaves out
\* every vector of the document that vector belongs to.
SimilarToChunkExcludesDocument ==
    (/\ search.pc = "returned"
     /\ search.op = "find_similar_documents")
    => \A k \in 1..Len(search.sources) :
          search.sources[k].metadata["document_id"] # DocumentOf(search.document_id)

\* C15: when retrieval succeeds and generation then fails in
\* search_with_answer, the caller receives the failure together with the
\* sources that were retrieved.
C15_GenerationFailureKeepsSources ==
    (/\ search.pc = "raised"
     /\ search.op = "search_with_answer"
     /\ search.retrieved
     /\ search.error = "GenerationError")
    => /\ search.has_sources
       /\ search.sources = search.results

\* C16: in search_with_answer a failure of the query embedding or of the
\* index query ends the call before generation: generation is never invoked
\* in a call whose retrieval failed, and in a call whose retrieval
\* succeeded it is invoked exactly once by the end of the call, after
\* retrieval, whether it succeeds or fails.
C16_GenerationOnceAfterRetrieval ==
    search.op = "search_with_answer"
    => /\ search.gen_calls > 0 => search.retrieved
       /\ search.pc = "generating" => search.retrieved /\ search.gen_calls = 0
       /\ (SearchEnded /\ search.error \in {"EmbeddingError", "IndexQueryError"})
             => ~search.retrieved /\ search.gen_calls = 0
       /\ (SearchEnded /\ search.retrieved) => search.gen_calls = 1

C16_Witness ==
    /\ search.op = "search_with_answer"
    /\ search.pc = "raised"
    /\ search.error = "IndexQueryError"
    /\ search.queried
    /\ search.gen_calls = 0

---------------------------------------------------------------------------
(* QAChain claims                                                          *)

\* C17: the stored conversation history holds at most the HistoryWindow
\* most recent turns; a turn appended beyond that evicts the oldest.
C17_StoredHistoryBounded == Len(chat_history) <= HistoryWindow

\* The session a turn was recorded for.
OwnerOf(turn) == turn.question[1]

TurnsOf(history, s) == SelectSeq(history, LAMBDA turn : OwnerOf(turn) = s)

\* The transcript rendered into the prompt of a session holds turns of
\* that session only.
RenderedOwnTurnsOnly ==
    qa.pc = "invoking" =>
       \A k \in 1..Len(qa.rendered) : OwnerOf(qa.rendered[k]) = qa.session

\* A clearing for one session leaves the turns of the other sessions.
ClearLeavesOtherSessions ==
    qa'.pc = "cleared" =>
       \A s \in Sessions \ {qa'.session} :
          TurnsOf(chat_history', s) = TurnsOf(chat_history, s)

\* A clearing for one session removes the turns of that session.
ClearRemovesOwnTurns ==
    qa.pc = "cleared" => TurnsOf(chat_history, qa.session) = <<>>

\* C18: a turn recorded for one session never appears in the transcript
\* rendered into the prompt of a different session, and clearing one
\* session's history leaves every other session's history unchanged.
C18_HistoryOwnedBySession ==
    /\ []RenderedOwnTurnsOnly
    /\ [][ClearLeavesOtherSessions]_vars

---------------------------------------------------------------------------
(* SummarizationChain claims                                               *)

\* A run of summarize took the path its text asks for.
RunTakesRightPath(run) ==
    IF run.text.len \div CharsPerToken <= max_doc_length
    THEN /\ run.method = "single_pass"
         /\ run.gen_calls = 1
         /\ run.map_calls = 0
    ELSE /\ run.method = "map_reduce"
         /\ run.gen_calls = 0
         /\ ~run.failed => /\ run.map_calls = run.text.sections
                           /\ run.num_chunks = run.text.sections

\* C19: summarize takes the single-pass path, with exactly one generation
\* call, when len(text) // 4 is at or below max_doc_length, and the
\* map-reduce path when it is above; a map-reduce run that ends has made as
\* many map calls as the splitter produced sections, the number it reports
\* as num_chunks.
C19_PathByEstimatedTokens ==
    /\ \A k \in 1..Len(sum_call.runs) :
          /\ RunTakesRightPath(sum_call.runs[k])
          /\ (k <= Len(sum_call.results)
              /\ "num_chunks" \in DOMAIN sum_call.results[k])
                => sum_call.results[k]["num_chunks"] = sum_call.runs[k].map_calls
    /\ sum_call.pc = "single"
          => sum_call.run.text.len \div CharsPerToken <= max_doc_length
    /\ sum_call.pc = "mapping"
          => sum_call.run.text.len \div CharsPerToken > max_doc_length

C19_Witness ==
    /\ sum_call.op = "summarize"
    /\ sum_call.pc = "returned"
    /\ sum_call.texts[1].len = max_doc_length * CharsPerToken + CharsPerToken
    /\ sum_call.runs[1].map_calls = MaxSections
    /\ sum_call.results[1]["method"] = "map_reduce"

C19_WitnessSinglePass ==
    /\ sum_call.op = "summarize"
    /\ sum_call.pc = "returned"
    /\ sum_call.texts[1].len = max_doc_length * CharsPerToken
    /\ sum_call.runs[1].gen_calls = 1
    /\ sum_call.results[1]["method"] = "single_pass"

\* C20: batch_summarize does not raise and returns one result for each
\* text, in the order of the texts: result i carries the summary of text i
\* when text i succeeded, and an error with an empty summary when it
\* failed; the texts after a failed one are summarized all the same.
C20_BatchRecordsEachOutcome ==
    sum_call.op = "batch_summarize"
    => /\ sum_call.pc # "raised"
       /\ sum_call.pc = "returned"
          => /\ Len(sum_call.results) = Len(sum_call.texts)
             /\ Len(sum_call.runs) = Len(sum_call.texts)
             /\ \A k \in 1..Len(sum_call.texts) :
                   /\ sum_call.runs[k].text = sum_call.texts[k]
                   /\ IF sum_call.runs[k].failed
                      THEN /\ "error" \in DOMAIN sum_call.results[k]
                           /\ sum_call.results[k]["summary"] = <<>>
                      ELSE /\ "error" \notin DOMAIN sum_call.results[k]
                           /\ sum_call.results[k]["summary"]
                                 = <<"summary of", sum_call.texts[k]>>

C20_Witness ==
    /\ sum_call.op = "batch_summarize"
    /\ sum_call.pc = "returned"
    /\ Len(sum_call.texts) = MaxBatch
    /\ sum_call.runs[1].failed
    /\ ~sum_call.runs[MaxBatch].failed
    /\ "error" \in DOMAIN sum_call.results[1]
    /\ "error" \notin DOMAIN sum_call.results[MaxBatch]


\* C21: the result of summarize reports the requested length and the
\* requested document type, whichever path produced the summary, and its
\* method is single_pass or map_reduce.
C21_ResultReportsRequest ==
    (sum_call.op = "summarize" /\ sum_call.pc = "returned")
    => /\ sum_call.results[1]["length"] = sum_call.length
       /\ sum_call.results[1]["document_type"] = sum_call.document_type
       /\ sum_call.results[1]["method"] \in {"single_pass", "map_reduce"}

\* The same on the single-pass path alone.
SinglePassReportsRequest ==
    (sum_call.op = "summarize" /\ sum_call.pc = "returned"
     /\ sum_call.results[1]["method"] = "single_pass")
    => /\ sum_call.results[1]["length"] = sum_call.length
       /\ sum_call.results[1]["document_type"] = sum_call.document_type


---------------------------------------------------------------------------
(* SummarizationService claims                                             *)

JobTerminal(job) == job.status \in {"completed", "failed"}

JobRank(status) ==
    IF status = "pending" THEN 0 ELSE IF status = "processing" THEN 1 ELSE 2

\* A job is created pending; its status only advances, and a terminal
\* status stays.
JobStatusOnlyAdvances ==
    \A j \in JobIds :
       /\ (j \notin DOMAIN jobs /\ j \in DOMAIN jobs') => jobs'[j].status = "pending"
       /\ (j \in DOMAIN jobs /\ j \in DOMAIN jobs')
             => /\ JobRank(jobs'[j].status) >= JobRank(jobs[j].status)
                /\ JobTerminal(jobs[j]) => jobs'[j].status = jobs[j].status

JobStatusSafety == [][JobStatusOnlyAdvances]_vars

\* C22: a job created by batch_summarize starts pending, its status only
\* advances along pending, processing, completed or failed, a terminal
\* status never changes, and every created job eventually is completed or
\* failed, with one recorded outcome for each of its documents.
C22_JobsReachTerminalStatus ==
    /\ [][JobStatusOnlyAdvances]_vars
    /\ \A j \in JobIds :
          (j \in DOMAIN jobs)
             ~> (j \in DOMAIN jobs /\ JobTerminal(jobs[j])
                 /\ Len(jobs[j].results) = jobs[j].total)


---------------------------------------------------------------------------
(* Index and registry claims                                               *)

\* C23: when upsert fails on a sub-batch after earlier sub-batches were
\* written, the caller is told how many entries were written.
C23_PartialUpsertReportsCount ==
    (ups.pc = "raised" /\ ups.total_upserted > 0)
    => /\ ups.has_count
       /\ ups.upserted_count = ups.total_upserted

\* The entries of document d in an index.
EntriesOf(idx, d) ==
    {id \in DOMAIN idx : "document_id" \in DOMAIN idx[id].metadata
                         /\ idx[id].metadata["document_id"] = d}

\* C24: after delete_document(D) has returned True the index holds no
\* entry of D and the registry no D, and the entries and the registry
\* entries of the other documents are as before; for an unknown id it
\* returns False and the index and the registry are as before.
C24_DeleteCascadesToIndex ==
    removal.pc = "returned"
    => LET d == removal.document_id
       IN /\ removal.result <=> d \in DOMAIN removal.db_before
          /\ removal.result
                => /\ EntriesOf(index, d) = {}
                   /\ d \notin DOMAIN documents_db
                   /\ DOMAIN index = DOMAIN removal.index_before
                                        \ EntriesOf(removal.index_before, d)
                   /\ \A id \in DOMAIN index : index[id] = removal.index_before[id]
                   /\ DOMAIN documents_db = DOMAIN removal.db_before \ {d}
                   /\ \A e \in DOMAIN documents_db :
                         documents_db[e] = removal.db_before[e]
          /\ ~removal.result
                => /\ index = removal.index_before
                   /\ documents_db = removal.db_before

C24_Witness ==
    /\ removal.pc = "returned"
    /\ removal.result
    /\ EntriesOf(removal.index_before, removal.document_id) # {}
    /\ index # EmptyMap
    /\ DOMAIN documents_db # {}

UploadRunning == upload.pc \in {"loading", "splitting", "tagging", "embedding"}

\* The registry entry follows the call: processing while it runs, completed
\* once every vector is in the index, failed once it has raised; nothing is
\* processing after the call.
UploadStatusFollowsCall ==
    /\ UploadRunning
          => /\ upload.document_id \in DOMAIN documents_db
             /\ documents_db[upload.document_id].status = "processing"
    /\ upload.pc = "done"
          => /\ documents_db[upload.document_id].status = "completed"
             /\ documents_db[upload.document_id].num_chunks
                   = Len(embed_documents(upload.chunks))
    /\ upload.pc = "raised"
          => /\ upload.document_id \in DOMAIN documents_db
             /\ documents_db[upload.document_id].status = "failed"
    /\ \A d \in DOMAIN documents_db :
          /\ documents_db[d].status = "processing"
                => UploadRunning /\ upload.document_id = d
          /\ documents_db[d].status = "completed"
                => Cardinality(EntriesOf(index, d)) = documents_db[d].num_chunks

\* A completed or failed entry is not changed by an upload.
UploadKeepsTerminalStatus ==
    \A d \in DOMAIN documents_db :
       documents_db[d].status \in {"completed", "failed"}
          => d \in DOMAIN documents_db' /\ documents_db'[d] = documents_db[d]

LoaderEnded == loader.pc \in {"returned", "raised"}

\* load: a missing path gives the not-found error even when the extension
\* is unsupported too, an unsupported extension of an existing path gives
\* the unsupported-format error, and in both cases no loader has run.
LoadChecksBeforeLoaders ==
    (loader.op = "load" /\ LoaderEnded) =>
        /\ ~loader.path.exists =>
              loader.error = "FileNotFoundError" /\ loader.invoked = "none"
        /\ (loader.path.exists /\ suffix(loader.path.name) \notin supported_formats) =>
              loader.error = "ValueError" /\ loader.invoked = "none"

\* load_from_bytes with a declared type that is not one of the supported
\* ones ends with the unsupported-format error.
UnsupportedDeclaredTypeRefused ==
    (/\ loader.op = "load_from_bytes"
     /\ LoaderEnded
     /\ loader.file_type \notin {<<f>> : f \in supported_formats}) =>
        loader.error = "ValueError"

\* C25: load fails with the not-found error for a missing path and with
\* the unsupported-format error for an extension outside the supported
\* set, the existence check first and no loader invoked; load_from_bytes
\* with a declared type outside the supported set always ends with the
\* unsupported-format error.
C25_LoaderRefusesBadSources ==
    LoadChecksBeforeLoaders /\ UnsupportedDeclaredTypeRefused

\* The part of C25 about the declared type when the temporary file was
\* written: a type whose last part is a supported extension is loaded.
UnsupportedDeclaredTypeRefusedAfterWrite ==
    (/\ loader.op = "load_from_bytes"
     /\ LoaderEnded
     /\ loader.path.exists
     /\ loader.file_type \notin {<<f>> : f \in supported_formats}) =>
        loader.error = "ValueError"

\* C26: once load_from_bytes has returned or raised, the temporary file it
\* created does not exist.
C26_TempFileDeletedOnEveryExit ==
    (loader.op = "load_from_bytes" /\ LoaderEnded) => ~loader.tmp_exists

\* The part of C26 that holds: the file is gone after every call that got
\* as far as load.
TempFileDeletedAfterLoad ==
    (loader.op = "load_from_bytes" /\ LoaderEnded /\ loader.path.exists) =>
        ~loader.tmp_exists

\* C27: a page-structured document of P pages gives P segments in page
\* order, segment i tagged with page i, blank pages included; a flat-text
\* document gives exactly one segment.
C27_OneSegmentPerPage ==
    (loader.pc = "returned") =>
        /\ loader.invoked = "_load_pdf" =>
              /\ Len(loader.documents) = Len(loader.path.content.pages)
              /\ \A i \in 1..Len(loader.documents) :
                     /\ loader.documents[i].metadata["page"] = i
                     /\ loader.documents[i].page_content = loader.path.content.pages[i]
        /\ loader.invoked = "_load_text" => Len(loader.documents) = 1

\* The part of C27 that holds: one segment for flat text, and for pages one
\* segment for each page that is not blank, tagged with the number of its
\* page.
SegmentsOfShownPages ==
    (loader.pc = "returned") =>
        /\ loader.invoked = "_load_text" => Len(loader.documents) = 1
        /\ loader.invoked = "_load_pdf" =>
              /\ Len(loader.documents)
                    = Cardinality({k \in 1..Len(loader.path.content.pages) :
                                      Strip(loader.path.content.pages[k]) # <<>>})
              /\ \A i \in 1..Len(loader.documents) :
                     loader.documents[i].page_content
                        = loader.path.content.pages[loader.documents[i].metadata["page"]]


\* Every entry of the cache is still there after the step, with its vector.
CacheKept == \A k \in DOMAIN cache : k \in DOMAIN cache' /\ cache'[k] = cache[k]

\* C28: once a key is in the embedding cache, no step of embed_text or
\* embed_texts changes or removes the vector stored under it (a batch with
\* the same text twice, or with hits and misses, included); the vector of a
\* key changes only in a step of clear_cache or load_cache.
C28_CacheEntriesImmutable ==
    [][CacheKept \/ ClearCache \/ (\E file \in CacheFiles : LoadCacheOk(file))]_vars

\* embed_texts of the same text twice, one text to a batch, has stored under
\* the key a second time; and a batch of a hit and a miss has ended.
C28_Witness ==
    \E c \in Callers :
        /\ req[c].op = "embed_texts"
        /\ req[c].pc = "done"
        /\ req[c].texts = <<1, 1>>
        /\ req[c].ncalls = 2
        /\ cache[get_cache_key(1)] = embed_query(1)

C28_WitnessHitAndMiss ==
    \E c \in Callers :
        /\ req[c].op = "embed_texts"
        /\ req[c].pc = "done"
        /\ req[c].texts = <<1, 2>>
        /\ req[c].embeddings[1] = <<1, 0>>
        /\ req[c].ncalls = 1
        /\ cache[get_cache_key(1)] = <<1, 0>>
        /\ cache[get_cache_key(2)] = embed_query(2)


\* The text has four spaces at position i.
IndentedAt(t, i) == i + 3 <= Len(t) /\ \A k \in 0..3 : t[i + k] = " "

\* The lines of the text that start with four spaces, the first line
\* included.
IndentedLineStarts(t) ==
    Cardinality({i \in 1..Len(t) : (i = 1 \/ t[i - 1] = "\n") /\ IndentedAt(t, i)})

\* The newlines of the text that are followed by four spaces.
IndentedAfterNewline(t) ==
    Cardinality({i \in 1..Len(t) : t[i] = "\n" /\ IndentedAt(t, i + 1)})

Pipes(t) == Cardinality({i \in 1..Len(t) : t[i] = Pipe})

HasFence(t) == \E i \in 1..Len(t) : i + 2 <= Len(t) /\ \A k \in 0..2 : t[i + k] = Backtick

\* The class of a text from the number of its indented lines.
ClassBy(t, indented) ==
    IF HasFence(t) \/ indented > 5 THEN "code"
    ELSE IF Pipes(t) > 10 THEN "table"
    ELSE "general"

AdaptiveCalled == adaptive_call.pc \in {"called", "returned"}

\* Every chunk of a returned call has the class detected for the page it
\* was cut from.
ChunksTaggedWithParentClass ==
    (adaptive_call.pc = "returned") =>
        \A j \in 1..Len(adaptive_call.chunks) :
            LET chunk == adaptive_call.chunks[j]
                parent == adaptive_call.documents[chunk.metadata["page"]]
            IN /\ "content_type" \in DOMAIN chunk.metadata
               /\ chunk.metadata["content_type"]
                     = detect_content_type(parent.page_content)

\* C29: the class of a text is code when it has a code fence or more than 5
\* line starts indented by four spaces, otherwise table when it has more
\* than 10 pipes, otherwise general; and every chunk of the adaptive
\* split_documents is tagged with the class detected for its parent.
C29_ContentTypeOfTextAndChunks ==
    /\ AdaptiveCalled =>
          \A k \in 1..Len(adaptive_call.documents) :
              LET t == adaptive_call.documents[k].page_content
              IN detect_content_type(t) = ClassBy(t, IndentedLineStarts(t))
    /\ ChunksTaggedWithParentClass

\* C29 as it holds: the indented lines counted are the newlines followed by
\* four spaces, so that an indented first line does not count.
C29_ContentTypeByNewlineIndents ==
    /\ AdaptiveCalled =>
          \A k \in 1..Len(adaptive_call.documents) :
              LET t == adaptive_call.documents[k].page_content
              IN detect_content_type(t) = ClassBy(t, IndentedAfterNewline(t))
    /\ ChunksTaggedWithParentClass

\* A returned call on a page of pipes and a code fence and a page of six
\* indented lines that open the text: chunks tagged code and general.
C29_Witness ==
    /\ adaptive_call.pc = "returned"
    /\ Len(adaptive_call.documents) = 2
    /\ adaptive_call.documents[1].page_content = Repeat(Pipe, 11) \o Repeat(Backtick, 3)
    /\ adaptive_call.documents[2].page_content = Tail(IndentedLines(6))
    /\ \E j \in 1..Len(adaptive_call.chunks) :
           /\ adaptive_call.chunks[j].metadata["page"] = 1
           /\ adaptive_call.chunks[j].metadata["content_type"] = "code"
    /\ \E j \in 1..Len(adaptive_call.chunks) :
           /\ adaptive_call.chunks[j].metadata["page"] = 2
           /\ adaptive_call.chunks[j].metadata["content_type"] = "general"

=============================================================================
